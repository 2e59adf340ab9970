-------------------------- MODULE ChunkFlowProofs ---------------------------
(***************************************************************************)
(* The loop of Pipeline::execute_pipeline closes its sink once, none of    *)
(* its parts slices past the end of a result or dereferences a chunk that  *)
(* is not there, and every row of the source comes to the sink as often as *)
(* the operators let it through, for every size of a chunk, of a result    *)
(* and of the group and every list of operators.                           *)
(***************************************************************************)
EXTENDS ChunkFlow, FiniteSetTheorems, SequenceTheorems, WellFoundedInduction, TLAPS

\* An ORDER BY without rows, which leaves temporary_chunk null.
NoRows == source.kind = "order" /\ row_nums = 0

(* The loop has not seen the end of its source before it ends itself. *)
LoopInv ==
  /\ pc \in {"source", "operators", "sink", "done", "crashed"}
  /\ finals = IF pc = "done" THEN 1 ELSE 0
  /\ pc = "source" => is_final_chunk = FALSE

(* How far a source may have gone: the signed difference of the grouped    *)
(* aggregation is at least -1, the unsigned one of the other never wraps.  *)
PlaceInv ==
  /\ idx \in Nat
  /\ source.kind = "multi_field_agg" => idx <= row_nums + 1
  /\ source.kind = "hash_agg" => idx <= row_nums
  /\ source.kind = "order" /\ row_nums > source.parallelism => idx <= row_per_pipeline

(* There is a chunk once a source has been asked for one. *)
ChunkThere ==
  /\ pc \in {"operators", "sink"} /\ ~NoRows => temporary_chunk # NoChunk
  /\ idx > 0 => temporary_chunk # NoChunk
  /\ pc = "crashed" => NoRows

FlowInv == input \in Inputs /\ LoopInv /\ PlaceInv /\ ChunkThere

-----------------------------------------------------------------------------
(* What the pipelines to run are. *)
LEMMA ScanFacts ==
  ASSUME input \in Inputs, source.kind = "table_scan"
  PROVE  source.chunks \in Seq(Seq(RowsOfSource(source)) \ {<<>>})
BY InputAssumption DEF source

LEMMA ResultFacts ==
  ASSUME input \in Inputs, source.kind # "table_scan"
  PROVE  source.result \in Seq(RowsOfSource(source)) /\ row_nums \in Nat
<1>1. source.result \in Seq(RowsOfSource(source))
  BY InputAssumption DEF source
<1> QED BY <1>1 DEF row_nums

LEMMA HashAggFacts ==
  ASSUME input \in Inputs, source.kind = "hash_agg"
  PROVE  row_nums + 1 < CHUNK_SIZE
BY InputAssumption DEF source, row_nums

LEMMA OrderFacts ==
  ASSUME input \in Inputs, source.kind = "order"
  PROVE  /\ source.parallelism \in Nat \ {0}
         /\ source.pipeline_id \in 0 .. source.parallelism - 1
BY InputAssumption DEF source

-----------------------------------------------------------------------------
(* The shares of an ORDER BY result *)

LEMMA EveryoneHasAShare ==
  ASSUME NEW n \in Nat, NEW p \in Nat \ {0}, n > p
  PROVE  /\ n \div p \in Nat /\ n \div p >= 1
         /\ n - (p - 1) * (n \div p) \in Nat /\ n - (p - 1) * (n \div p) >= 1
<1> DEFINE q == n \div p
<1>1. q \in Int /\ q * p <= n /\ n < (q + 1) * p
  OBVIOUS
<1> HIDE DEF q
<1>2. q >= 1
  BY <1>1
<1>3. (p - 1) * q = q * p - q
  BY <1>1
<1> QED BY <1>1, <1>2, <1>3 DEF q

LEMMA ShareFacts ==
  ASSUME input \in Inputs, source.kind = "order", row_nums > source.parallelism
  PROVE  row_per_pipeline \in Nat /\ row_per_pipeline >= 1
<1>1. /\ row_nums \in Nat /\ source.parallelism \in Nat \ {0}
      /\ source.pipeline_id \in 0 .. source.parallelism - 1
  BY ResultFacts, OrderFacts
<1>2. CASE source.pipeline_id # source.parallelism - 1
  BY <1>1, <1>2, EveryoneHasAShare DEF row_per_pipeline
<1>3. CASE source.pipeline_id = source.parallelism - 1
  <2>1. row_per_pipeline = row_nums - (source.parallelism - 1) * (row_nums \div source.parallelism)
    BY <1>3 DEF row_per_pipeline
  <2> QED BY <1>1, <2>1, EveryoneHasAShare
<1> QED BY <1>2, <1>3

LEMMA ChunkIsThere ==
  ASSUME NEW rows PROVE Chunk(rows) # NoChunk
<1>1. Chunk(rows).null = FALSE /\ NoChunk.null = TRUE
  BY DEF Chunk, NoChunk
<1> QED BY <1>1

LEMMA InputKept ==
  ASSUME input' = input
  PROVE  /\ source' = source /\ operators' = operators /\ row_nums' = row_nums
         /\ row_per_pipeline' = row_per_pipeline /\ NoRows' = NoRows
<1>1. source' = source /\ operators' = operators
  BY DEF source, operators
<1>2. row_nums' = row_nums
  BY <1>1 DEF row_nums
<1> QED BY <1>1, <1>2 DEF row_per_pipeline, NoRows

-----------------------------------------------------------------------------
(* One step of the loop *)

\* A source that hands on a chunk, or finds the one of the last round.
LEMMA FetchKeepsInv ==
  ASSUME FlowInv, pc = "source", NEW answer, Fetched(answer), PlaceInv',
         NoRows \/ temporary_chunk' # NoChunk, idx' > 0 => temporary_chunk' # NoChunk
  PROVE  FlowInv'
<1>1. /\ input' = input /\ finals' = finals /\ pc' \in {"operators", "sink"}
  BY DEF Fetched
<1>2. LoopInv'
  BY <1>1 DEF FlowInv, LoopInv
<1>3. ChunkThere'
  BY <1>1, InputKept DEF FlowInv, ChunkThere
<1> QED BY <1>1, <1>2, <1>3 DEF FlowInv

LEMMA ScanKeepsInv ==
  ASSUME FlowInv, ScanGetData
  PROVE  FlowInv'
<1>1. /\ pc = "source" /\ source.kind = "table_scan" /\ idx \in Nat
      /\ idx' = idx \/ idx' = idx + 1
      /\ \E rows : temporary_chunk' = Chunk(rows)
      /\ Fetched("FINISHED") \/ Fetched("HAVE_MORE_OUTPUT")
  BY DEF ScanGetData, FlowInv, PlaceInv
<1>2. input' = input
  BY <1>1 DEF Fetched
<1>3. PlaceInv'
  BY <1>1, <1>2, InputKept DEF PlaceInv
<1>4. temporary_chunk' # NoChunk
  BY <1>1, ChunkIsThere
<1> QED BY <1>1, <1>3, <1>4, FetchKeepsInv

\* A whole chunk may be one row more than is left, never more.
LEMMA TakeFullKeepsInv ==
  ASSUME FlowInv, pc = "source", source.kind = "multi_field_agg",
         AggTakeFull, idx <= row_nums - (CHUNK_SIZE - 1)
  PROVE  FlowInv'
<1>1. row_nums \in Nat /\ idx \in Nat /\ CHUNK_SIZE \in Nat \ {0} /\ input \in Inputs
  BY ResultFacts, ChunkAssumption DEF FlowInv, PlaceInv
<1>2. idx <= Len(source.result)
  BY <1>1 DEF row_nums
<1>3. /\ idx' = idx + CHUNK_SIZE /\ temporary_chunk' = Chunk(Slice(idx, CHUNK_SIZE))
      /\ Fetched("HAVE_MORE_OUTPUT")
  BY <1>2 DEF AggTakeFull
<1>4. input' = input
  BY <1>3 DEF Fetched
<1>5. idx' \in Nat /\ idx' <= row_nums + 1
  BY <1>1, <1>3
<1>6. PlaceInv'
  BY <1>4, <1>5, InputKept DEF PlaceInv
<1> QED BY <1>3, <1>6, ChunkIsThere, FetchKeepsInv

LEMMA TakeRestKeepsInv ==
  ASSUME FlowInv, pc = "source", source.kind \in {"multi_field_agg", "hash_agg"}, AggTakeRest
  PROVE  FlowInv'
<1>1. row_nums \in Nat /\ idx \in Nat /\ input \in Inputs
  BY ResultFacts DEF FlowInv, PlaceInv
<1>2. /\ idx' = idx \/ idx' = row_nums
      /\ \E rows : temporary_chunk' = Chunk(rows)
      /\ Fetched("FINISHED") \/ Fetched("HAVE_MORE_OUTPUT")
  BY DEF AggTakeRest, row_nums
<1>3. input' = input
  BY <1>2 DEF Fetched
<1>4. PlaceInv'
  BY <1>1, <1>2, <1>3, InputKept DEF FlowInv, PlaceInv
<1>5. temporary_chunk' # NoChunk
  BY <1>2, ChunkIsThere
<1> QED BY <1>2, <1>4, <1>5, FetchKeepsInv

LEMMA MultiFieldAggKeepsInv ==
  ASSUME FlowInv, MultiFieldAggGetData
  PROVE  FlowInv'
<1>1. pc = "source" /\ source.kind = "multi_field_agg"
  BY DEF MultiFieldAggGetData
<1>2. row_nums \in Nat /\ idx \in Nat /\ CHUNK_SIZE \in Nat \ {0}
  BY <1>1, ResultFacts, ChunkAssumption DEF FlowInv, PlaceInv
<1>3. CASE AggTakeRest
  BY <1>1, <1>3, TakeRestKeepsInv
<1>4. CASE row_nums - idx >= CHUNK_SIZE - 1 /\ AggTakeFull
  <2>1. idx <= row_nums - (CHUNK_SIZE - 1)
    BY <1>2, <1>4
  <2> QED BY <1>1, <1>4, <2>1, TakeFullKeepsInv
<1> QED BY <1>3, <1>4 DEF MultiFieldAggGetData, row_nums

\* The unsigned difference is small, as the result is shorter than a chunk.
LEMMA HashAggTakesRest ==
  ASSUME FlowInv, HashAggGetData
  PROVE  AggTakeRest
<1>1. pc = "source" /\ source.kind = "hash_agg"
  BY DEF HashAggGetData
<1>2. /\ row_nums \in Nat /\ idx \in Nat /\ CHUNK_SIZE \in Nat \ {0}
      /\ row_nums + 1 < CHUNK_SIZE /\ idx <= row_nums /\ WordSize \in Nat \ {0}
  BY <1>1, ResultFacts, HashAggFacts, ChunkAssumption DEF FlowInv, PlaceInv
<1>3. \A d \in Nat, w \in Nat \ {0} : d % w <= d
  OBVIOUS
<1>4. row_nums - idx \in Nat /\ row_nums - idx < CHUNK_SIZE - 1
  BY <1>2
<1>5. (row_nums - idx) % WordSize <= row_nums - idx
  BY <1>2, <1>3, <1>4
<1>6. ~((row_nums - idx) % WordSize >= CHUNK_SIZE - 1)
  <2> DEFINE d == row_nums - idx  m == d % WordSize
  <2>1. m \in Int /\ d \in Nat /\ m <= d /\ d < CHUNK_SIZE - 1
    BY <1>2, <1>4, <1>5
  <2> HIDE DEF m, d
  <2>2. ~(m >= CHUNK_SIZE - 1)
    BY <1>2, <2>1
  <2> QED BY <2>2 DEF m, d
<1> QED BY <1>6 DEF HashAggGetData, row_nums

LEMMA HashAggKeepsInv ==
  ASSUME FlowInv, HashAggGetData
  PROVE  FlowInv'
BY HashAggTakesRest, TakeRestKeepsInv DEF HashAggGetData

\* A share has rows, so a chunk has been made before the share is used up.
LEMMA OrderKeepsInv ==
  ASSUME FlowInv, OrderGetData
  PROVE  FlowInv'
<1>1. pc = "source" /\ source.kind = "order" /\ input \in Inputs /\ idx \in Nat
  BY DEF OrderGetData, FlowInv, PlaceInv
<1>2. row_nums \in Nat /\ CHUNK_SIZE \in Nat \ {0}
  BY <1>1, ResultFacts, ChunkAssumption
<1>3. CASE row_nums = 0 /\ UNCHANGED <<temporary_chunk, idx>> /\ Fetched("FINISHED")
  <2>1. input' = input
    BY <1>3 DEF Fetched
  <2>2. PlaceInv'
    BY <1>3, <2>1, InputKept DEF FlowInv, PlaceInv
  <2>3. NoRows /\ (idx' > 0 => temporary_chunk' # NoChunk)
    BY <1>1, <1>3 DEF NoRows, FlowInv, ChunkThere
  <2> QED BY <1>1, <1>3, <2>2, <2>3, FetchKeepsInv
<1>4. CASE temporary_chunk' = Chunk(Share) /\ UNCHANGED idx /\ Fetched("FINISHED")
  <2>1. input' = input
    BY <1>4 DEF Fetched
  <2>2. PlaceInv'
    BY <1>4, <2>1, InputKept DEF FlowInv, PlaceInv
  <2> QED BY <1>1, <1>4, <2>2, ChunkIsThere, FetchKeepsInv
<1>5. CASE row_nums > source.parallelism /\ OrderTakeChunk
  <2>1. row_per_pipeline \in Nat /\ row_per_pipeline >= 1 /\ idx <= row_per_pipeline
    BY <1>1, <1>5, ShareFacts DEF FlowInv, PlaceInv
  <2>2. Fetched("FINISHED") \/ Fetched("HAVE_MORE_OUTPUT")
    BY <1>5 DEF OrderTakeChunk
  <2>3. idx' \in Nat /\ idx' <= row_per_pipeline
    <3>1. \/ row_per_pipeline - idx >= CHUNK_SIZE /\ idx' = idx + CHUNK_SIZE
          \/ idx' = row_per_pipeline
          \/ idx' = idx
      BY <1>5 DEF OrderTakeChunk
    <3> QED BY <1>1, <1>2, <2>1, <3>1
  <2>4. temporary_chunk' # NoChunk
    <3>1. CASE \E rows : temporary_chunk' = Chunk(rows)
      BY <3>1, ChunkIsThere
    <3>2. CASE row_per_pipeline - idx = 0 /\ temporary_chunk' = temporary_chunk
      <4>1. idx > 0
        BY <1>1, <2>1, <3>2
      <4> QED BY <3>2, <4>1 DEF FlowInv, ChunkThere
    <3> QED BY <1>5, <3>1, <3>2 DEF OrderTakeChunk
  <2>5. input' = input
    BY <2>2 DEF Fetched
  <2>6. PlaceInv'
    BY <1>1, <2>3, <2>5, InputKept DEF PlaceInv
  <2> QED BY <1>1, <2>2, <2>4, <2>6, FetchKeepsInv
<1> QED BY <1>3, <1>4, <1>5 DEF OrderGetData

LEMMA OperatorKeepsInv ==
  ASSUME FlowInv, ExecuteOperator
  PROVE  FlowInv'
<1>1. /\ pc = "operators" /\ UNCHANGED <<input, idx, is_final_chunk, sunk, finals>>
      /\ input \in Inputs /\ idx \in Nat
  BY DEF ExecuteOperator, FlowInv, PlaceInv
<1>2. /\ pc' \in {"operators", "sink", "crashed"}
      /\ pc' = "crashed" => temporary_chunk = NoChunk
      /\ temporary_chunk # NoChunk => \E rows : temporary_chunk' = Chunk(rows)
  BY DEF ExecuteOperator
<1>3. temporary_chunk # NoChunk => temporary_chunk' # NoChunk
  BY <1>2, ChunkIsThere
<1>4. LoopInv'
  BY <1>1, <1>2 DEF FlowInv, LoopInv
<1>5. PlaceInv'
  BY <1>1, InputKept DEF FlowInv, PlaceInv
<1>6. ChunkThere'
  BY <1>1, <1>2, <1>3, InputKept DEF FlowInv, ChunkThere
<1> QED BY <1>1, <1>4, <1>5, <1>6 DEF FlowInv

LEMMA SinkKeepsInv ==
  ASSUME FlowInv, SkipSink \/ SinkChunk \/ SinkNull
  PROVE  FlowInv'
<1>1. pc = "sink" /\ UNCHANGED <<input, idx, temporary_chunk, is_final_chunk>>
  BY DEF SkipSink, SinkChunk, SinkNull
<1>2. PlaceInv'
  BY <1>1, InputKept DEF FlowInv, PlaceInv
<1>3. CASE SkipSink \/ SinkChunk
  <2>1. pc' \in {"source", "done"} /\ finals = 0
        /\ (pc' = "source" => ~is_final_chunk /\ finals' = finals)
        /\ (pc' = "done" => finals' = finals + 1)
    BY <1>1, <1>3 DEF SkipSink, SinkChunk, Skip, FlowInv, LoopInv
  <2>2. LoopInv'
    BY <1>1, <2>1 DEF LoopInv
  <2>3. ChunkThere'
    BY <1>1, <2>1, InputKept DEF FlowInv, ChunkThere
  <2> QED BY <1>1, <1>2, <2>2, <2>3 DEF FlowInv
<1>4. CASE SinkNull
  <2>1. pc' = "crashed" /\ temporary_chunk = NoChunk /\ finals' = finals
    BY <1>4 DEF SinkNull
  <2>2. LoopInv'
    BY <1>1, <2>1 DEF FlowInv, LoopInv
  <2>3. ChunkThere'
    BY <1>1, <2>1, InputKept DEF FlowInv, ChunkThere
  <2> QED BY <1>1, <1>2, <2>2, <2>3 DEF FlowInv
<1> QED BY <1>3, <1>4

LEMMA FlowInvInitially == Init => FlowInv
<1> SUFFICES ASSUME Init PROVE FlowInv
  OBVIOUS
<1>1. input \in Inputs /\ idx = 0 /\ pc = "source" /\ finals = 0 /\ is_final_chunk = FALSE
  BY DEF Init
<1>2. source.kind # "table_scan" => row_nums \in Nat
  BY <1>1, ResultFacts
<1>3. PlaceInv
  BY <1>1, <1>2, ShareFacts DEF PlaceInv
<1> QED BY <1>1, <1>3 DEF FlowInv, LoopInv, ChunkThere

LEMMA FlowInvKept == FlowInv /\ [Next]_vars => FlowInv'
<1> SUFFICES ASSUME FlowInv, [Next]_vars PROVE FlowInv'
  OBVIOUS
<1>1. CASE UNCHANGED vars
  <2>1. UNCHANGED <<input, pc, idx, temporary_chunk, is_final_chunk, finals>>
    BY <1>1 DEF vars
  <2> QED BY <2>1, InputKept DEF FlowInv, LoopInv, PlaceInv, ChunkThere
<1> QED
  BY <1>1, ScanKeepsInv, MultiFieldAggKeepsInv, HashAggKeepsInv, OrderKeepsInv,
     OperatorKeepsInv, SinkKeepsInv DEF Next

\* The three parts of FlowInv hold in every state of the loop.
THEOREM FlowInvHolds == Spec => []FlowInv
<1> QED BY FlowInvInitially, FlowInvKept, PTL DEF Spec

(***************************************************************************)
(* execute_pipeline calls the sink with is_final_chunk once, in its last   *)
(* round: what the barrier of the sinks and add_count rely on.             *)
(***************************************************************************)
THEOREM SinkIsClosedOnce == Spec => []ClosedOnce
<1>1. FlowInv => ClosedOnce
  BY DEF FlowInv, LoopInv, ClosedOnce
<1> QED BY <1>1, FlowInvHolds, PTL

(***************************************************************************)
(* get_data never slices past the end of a result, and no operator or sink *)
(* meets a null chunk, unless an ORDER BY has no rows.                     *)
(***************************************************************************)
THEOREM LoopNeverCrashes == Spec => []NeverCrashes
<1>1. FlowInv => NeverCrashes
  BY DEF FlowInv, ChunkThere, NoRows, NeverCrashes
<1> QED BY <1>1, FlowInvHolds, PTL

-----------------------------------------------------------------------------
(* Every row is sunk: what the loop has in its hands at each place. *)

\* The chunks seqs[1] to seqs[k] one after the other, for every k.
FlatTo(seqs) ==
  LET flat[k \in 0 .. Len(seqs)] == IF k = 0 THEN <<>> ELSE flat[k - 1] \o seqs[k]
  IN  flat

\* How often r is among the first n elements of s.
CountTo(r, s, n) == Cardinality({i \in 1 .. n : s[i] = r})

\* How often the source has handed row r on.
Gone(r) ==
  CASE source.kind = "table_scan" -> Count(r, FlatTo(source.chunks)[idx])
    [] source.kind = "order" /\ row_nums <= source.parallelism ->
         IF is_final_chunk THEN Count(r, Share) ELSE 0
    [] source.kind = "order" /\ row_nums > source.parallelism -> CountTo(r, Share, idx)
    [] OTHER -> CountTo(r, source.result, IF idx < row_nums THEN idx ELSE row_nums)

\* The final chunk goes to a sink that takes no rows from it.
Refused == is_final_chunk /\ input.sink \notin KeepsFinal

\* How many rows will become of the copies of row r in temporary_chunk.
Held(r) ==
  IF Refused THEN 0
  ELSE Count(r, temporary_chunk.rows) * Factors(r)[operator_idx + 1]

(* The rows are rows of the source, and the loop over the operators ends   *)
(* with all of them done or with an empty chunk.                           *)
StageInv ==
  /\ sunk \in Seq(RowsOfSource(source))
  /\ \E rows \in Seq(RowsOfSource(source)) :
       temporary_chunk = Chunk(rows) \/ (temporary_chunk = NoChunk /\ rows = <<>>)
  /\ is_final_chunk \in BOOLEAN
  /\ NoRows => temporary_chunk = NoChunk
  /\ operators = <<>> => operator_result # "NO_MORE_OUTPUT"
  /\ pc = "operators" => operator_idx \in 0 .. Len(operators) - 1
  /\ pc = "sink" =>
       /\ operator_idx \in -1 .. Len(operators) - 1
       /\ operator_idx = -1 \/ temporary_chunk.rows = <<>>
       /\ operator_result = "NO_MORE_OUTPUT" => temporary_chunk.rows = <<>>

(* Where a source stands, and that FINISHED comes with its last row. *)
SourceAt ==
  /\ source.kind = "table_scan" => idx <= Len(source.chunks)
  /\ source.kind = "order" /\ row_nums > source.parallelism /\ ~is_final_chunk =>
       idx % CHUNK_SIZE = 0

GoneInv ==
  /\ SourceAt
  /\ is_final_chunk => \A r \in RowsOfSource(source) : Gone(r) = Count(r, Rows)

(* Every row that has left the source is in the sink or on its way. *)
Balance(r) ==
  LET all == Gone(r) * Factors(r)[Len(operators)] IN
  /\ pc \in {"source", "done"} => Count(r, sunk) = all
  /\ pc \in {"operators", "sink"} => Count(r, sunk) + Held(r) = all

RowInv ==
  /\ StageInv /\ GoneInv
  /\ EndsWell => \A r \in RowsOfSource(source) : Balance(r)
  /\ pc = "done" => is_final_chunk

-----------------------------------------------------------------------------
(* Counting the rows of a sequence. *)

\* Induction up to n.
LEMMA UpTo ==
  ASSUME NEW n \in Nat, NEW T \in SUBSET (0 .. n), 0 \in T,
         \A m \in 1 .. n : m - 1 \in T => m \in T
  PROVE  \A m \in 0 .. n : m \in T
<1> DEFINE R == OpToRel(<, Nat)
           Out == (0 .. n) \ T
<1> SUFFICES ASSUME Out # {} PROVE FALSE
  OBVIOUS
<1>1. PICK m \in Out : \A k \in Out : <<k, m>> \notin R
  <2>1. IsWellFoundedOn(R, Nat)
    BY NatLessThanWellFounded
  <2>2. Out \subseteq Nat
    OBVIOUS
  <2> HIDE DEF R, Out
  <2> QED BY <2>1, <2>2, WFMin
<1>2. m \in 1 .. n /\ m - 1 \in 0 .. n
  OBVIOUS
<1>3. <<m - 1, m>> \in R
  BY <1>2 DEF OpToRel
<1>4. m - 1 \in T
  BY <1>1, <1>2, <1>3
<1> QED BY <1>2, <1>4

LEMMA CountToStep ==
  ASSUME NEW r, NEW s, NEW n \in Nat
  PROVE  /\ CountTo(r, s, n) \in Nat
         /\ CountTo(r, s, 0) = 0
         /\ s[n + 1] = r => CountTo(r, s, n + 1) = CountTo(r, s, n) + 1
         /\ s[n + 1] # r => CountTo(r, s, n + 1) = CountTo(r, s, n)
<1> DEFINE A == {i \in 1 .. n : s[i] = r}
           B == {i \in 1 .. n + 1 : s[i] = r}
<1>1. IsFiniteSet(A)
  <2>1. IsFiniteSet(1 .. n)
    BY FS_Interval
  <2> QED BY <2>1, FS_Subset
<1>2. Cardinality(A) \in Nat
  BY <1>1, FS_CardinalityType
<1>3. {i \in 1 .. 0 : s[i] = r} = {}
  OBVIOUS
<1>4. s[n + 1] = r => B = A \cup {n + 1} /\ n + 1 \notin A
  OBVIOUS
<1>5. s[n + 1] # r => B = A
  OBVIOUS
<1> HIDE DEF A, B
<1>6. s[n + 1] = r => Cardinality(B) = Cardinality(A) + 1
  BY <1>1, <1>4, FS_AddElement
<1>7. CountTo(r, s, n) = Cardinality(A) /\ CountTo(r, s, n + 1) = Cardinality(B)
  BY DEF CountTo, A, B
<1>8. CountTo(r, s, 0) = 0
  BY <1>3, FS_EmptySet DEF CountTo
<1> QED BY <1>2, <1>5, <1>6, <1>7, <1>8

LEMMA CountIsTo ==
  ASSUME NEW r, NEW S, NEW s \in Seq(S)
  PROVE  Count(r, s) = CountTo(r, s, Len(s)) /\ Count(r, s) \in Nat
<1>1. DOMAIN s = 1 .. Len(s) /\ Len(s) \in Nat
  OBVIOUS
<1>2. Count(r, s) = CountTo(r, s, Len(s))
  BY <1>1 DEF Count, CountTo
<1> QED BY <1>1, <1>2, CountToStep

LEMMA CountEmpty ==
  ASSUME NEW r PROVE Count(r, <<>>) = 0
<1>1. {i \in DOMAIN <<>> : <<>>[i] = r} = {}
  OBVIOUS
<1> QED BY <1>1, FS_EmptySet DEF Count

\* The first n elements decide.
LEMMA CountToSame ==
  ASSUME NEW r, NEW s, NEW t, NEW n \in Nat, \A i \in 1 .. n : s[i] = t[i]
  PROVE  CountTo(r, s, n) = CountTo(r, t, n)
<1>1. {i \in 1 .. n : s[i] = r} = {i \in 1 .. n : t[i] = r}
  OBVIOUS
<1> QED BY <1>1 DEF CountTo

\* A piece of s adds what it holds.
LEMMA CountToPiece ==
  ASSUME NEW r, NEW s, NEW S, NEW t \in Seq(S), NEW a \in Nat,
         \A i \in 1 .. Len(t) : s[a + i] = t[i]
  PROVE  CountTo(r, s, a + Len(t)) = CountTo(r, s, a) + Count(r, t)
<1> DEFINE n == Len(t)
           T == {m \in 0 .. n : CountTo(r, s, a + m) = CountTo(r, s, a) + CountTo(r, t, m)}
<1>1. n \in Nat
  OBVIOUS
<1>2. 0 \in T
  <2>1. CountTo(r, s, a) \in Nat /\ CountTo(r, t, 0) = 0
    BY CountToStep
  <2> QED BY <1>1, <2>1
<1>3. ASSUME NEW m \in 1 .. n, m - 1 \in T PROVE m \in T
  <2>1. PICK b : b = m - 1
    OBVIOUS
  <2>2. b \in Nat /\ m = b + 1 /\ a + b \in Nat /\ a + m = (a + b) + 1
    BY <1>1, <2>1
  <2>3. CountTo(r, s, a + b) = CountTo(r, s, a) + CountTo(r, t, b)
    BY <1>3, <2>1
  <2>4. s[(a + b) + 1] = t[b + 1]
    <3>1. s[a + m] = t[m]
      BY <1>3
    <3> QED BY <2>2, <3>1
  <2>5. /\ CountTo(r, s, a) \in Nat /\ CountTo(r, t, b) \in Nat /\ CountTo(r, s, a + b) \in Nat
        /\ t[b + 1] = r => CountTo(r, t, b + 1) = CountTo(r, t, b) + 1
        /\ t[b + 1] # r => CountTo(r, t, b + 1) = CountTo(r, t, b)
    BY <2>2, CountToStep
  <2>6. /\ s[(a + b) + 1] = r => CountTo(r, s, (a + b) + 1) = CountTo(r, s, a + b) + 1
        /\ s[(a + b) + 1] # r => CountTo(r, s, (a + b) + 1) = CountTo(r, s, a + b)
    BY <2>2, CountToStep
  <2>7. CountTo(r, s, a + m) = CountTo(r, s, a) + CountTo(r, t, m)
    <3>1. CountTo(r, s, (a + b) + 1) = CountTo(r, s, a) + CountTo(r, t, b + 1)
      BY <2>3, <2>4, <2>5, <2>6
    <3> QED BY <2>2, <3>1
  <2> QED BY <1>1, <2>7
<1>4. n \in T
  <2>1. T \in SUBSET (0 .. n) /\ n \in 0 .. n
    BY <1>1
  <2> HIDE DEF T, n
  <2> QED BY <1>1, <1>2, <1>3, <2>1, UpTo
<1>5. Count(r, t) = CountTo(r, t, n)
  BY CountIsTo
<1> QED BY <1>4, <1>5

LEMMA CountConcat ==
  ASSUME NEW r, NEW S, NEW s \in Seq(S), NEW t \in Seq(S)
  PROVE  Count(r, s \o t) = Count(r, s) + Count(r, t)
<1>1. PICK u \in Seq(S) : u = s \o t
  BY ConcatProperties
<1>2. /\ Len(u) = Len(s) + Len(t) /\ Len(s) \in Nat /\ Len(t) \in Nat
      /\ \A i \in 1 .. Len(s) : u[i] = s[i]
      /\ \A i \in 1 .. Len(t) : u[Len(s) + i] = t[i]
  BY <1>1
<1>3. CountTo(r, u, Len(s) + Len(t)) = CountTo(r, u, Len(s)) + Count(r, t)
  BY <1>2, CountToPiece
<1>4. CountTo(r, u, Len(s)) = CountTo(r, s, Len(s))
  BY <1>2, CountToSame
<1>5. Count(r, u) = CountTo(r, u, Len(u)) /\ Count(r, s) = CountTo(r, s, Len(s))
  BY CountIsTo
<1> QED BY <1>1, <1>2, <1>3, <1>4, <1>5

LEMMA CountSubSeq ==
  ASSUME NEW r, NEW S, NEW s \in Seq(S), NEW a \in Nat, NEW b \in Nat, a <= b, b <= Len(s)
  PROVE  /\ SubSeq(s, a + 1, b) \in Seq(S)
         /\ CountTo(r, s, b) = CountTo(r, s, a) + Count(r, SubSeq(s, a + 1, b))
<1>1. PICK t : t = SubSeq(s, a + 1, b)
  OBVIOUS
<1>2. t \in Seq(S) /\ Len(t) = b - a /\ \A i \in 1 .. b - a : t[i] = s[a + i]
  BY <1>1
<1>3. a + Len(t) = b
  BY <1>2
<1>4. CountTo(r, s, a + Len(t)) = CountTo(r, s, a) + Count(r, t)
  BY <1>2, CountToPiece
<1> QED BY <1>1, <1>2, <1>3, <1>4

Repeat(x, c) == [k \in 1 .. c |-> x]

LEMMA CountRepeat ==
  ASSUME NEW r, NEW x, NEW c \in Nat
  PROVE  Count(r, Repeat(x, c)) = IF x = r THEN c ELSE 0
<1> DEFINE s == [k \in 1 .. c |-> x]
<1>1. x = r => {i \in DOMAIN s : s[i] = r} = 1 .. c
  OBVIOUS
<1>2. x # r => {i \in DOMAIN s : s[i] = r} = {}
  OBVIOUS
<1>3. Cardinality(1 .. c) = c /\ Cardinality({}) = 0
  BY FS_Interval, FS_EmptySet
<1> HIDE DEF s
<1>4. Count(r, s) = IF x = r THEN c ELSE 0
  BY <1>1, <1>2, <1>3 DEF Count
<1> QED BY <1>4 DEF s, Repeat

-----------------------------------------------------------------------------
(* The recursive functions of FlattenSeq and Factors. *)

\* A value for each of 0 to n, each made of the one before.
Recursion(f, n, v, step) == f[0] = v /\ \A k \in 1 .. n : f[k] = step[k][f[k - 1]]

LEMMA RecursionExists ==
  ASSUME NEW V, NEW v \in V, NEW n \in Nat, NEW step \in [1 .. n -> [V -> V]]
  PROVE  \E f \in [0 .. n -> V] : Recursion(f, n, v, step)
<1> DEFINE Follows(f, m) == Recursion(f, m, v, step)
           T == {m \in 0 .. n : \E f \in [0 .. m -> V] : Follows(f, m)}
<1> USE DEF Recursion
<1>1. 0 \in T
  <2> DEFINE f == [k \in 0 .. 0 |-> v]
  <2>1. f \in [0 .. 0 -> V] /\ Follows(f, 0)
    OBVIOUS
  <2> HIDE DEF f, Follows, Recursion
  <2> QED BY <2>1
<1>2. ASSUME NEW m \in 1 .. n, m - 1 \in T PROVE m \in T
  <2>1. PICK f \in [0 .. m - 1 -> V] : Follows(f, m - 1)
    BY <1>2
  <2>2. PICK w \in V : w = step[m][f[m - 1]]
    <3>1. step[m] \in [V -> V] /\ f[m - 1] \in V
      OBVIOUS
    <3> QED BY <3>1
  <2> DEFINE g == [k \in 0 .. m |-> IF k = m THEN w ELSE f[k]]
  <2>3. g \in [0 .. m -> V]
    <3>1. \A k \in 0 .. m : k # m => k \in 0 .. m - 1
      OBVIOUS
    <3> QED BY <3>1
  <2>4. \A k \in 0 .. m - 1 : g[k] = f[k]
    OBVIOUS
  <2>5. g[m] = w
    OBVIOUS
  <2> HIDE DEF g
  <2>6. ASSUME NEW k \in 1 .. m PROVE g[k] = step[k][g[k - 1]]
    <3>1. g[k - 1] = f[k - 1]
      BY <2>4
    <3>2. CASE k = m
      BY <2>2, <2>5, <3>1, <3>2
    <3>3. CASE k # m
      <4>1. k \in 1 .. m - 1 /\ k \in 0 .. m - 1
        BY <3>3
      <4>2. f[k] = step[k][f[k - 1]]
        BY <2>1, <4>1
      <4> QED BY <2>4, <3>1, <4>1, <4>2
    <3> QED BY <3>2, <3>3
  <2>7. g[0] = v
    BY <2>1, <2>4
  <2>8. Follows(g, m)
    BY <2>6, <2>7
  <2> HIDE DEF Follows, Recursion
  <2>9. m \in 0 .. n
    OBVIOUS
  <2> QED BY <2>3, <2>8, <2>9
<1>3. n \in T
  <2>1. T \in SUBSET (0 .. n) /\ n \in 0 .. n
    OBVIOUS
  <2> HIDE DEF T
  <2> QED BY <1>1, <1>2, <2>1, UpTo
<1> HIDE DEF Recursion
<1> QED BY <1>3

IsFactor(f, n, copies) == f = [k \in 0 .. n |-> IF k = 0 THEN 1 ELSE f[k - 1] * copies[k]]

LEMMA FactorExists ==
  ASSUME NEW n \in Nat, NEW copies \in [1 .. n -> Nat]
  PROVE  \E f \in [0 .. n -> Nat] : IsFactor(f, n, copies)
<1> DEFINE step == [k \in 1 .. n |-> [x \in Nat |-> x * copies[k]]]
<1>1. step \in [1 .. n -> [Nat -> Nat]]
  <2>1. ASSUME NEW k \in 1 .. n PROVE [x \in Nat |-> x * copies[k]] \in [Nat -> Nat]
    <3>1. copies[k] \in Nat
      OBVIOUS
    <3> QED BY <3>1
  <2> QED BY <2>1
<1>2. \A k \in 1 .. n, x \in Nat : step[k][x] = x * copies[k]
  OBVIOUS
<1> HIDE DEF step
<1>3. PICK f \in [0 .. n -> Nat] : f[0] = 1 /\ \A k \in 1 .. n : f[k] = step[k][f[k - 1]]
  <2>1. \E f \in [0 .. n -> Nat] : Recursion(f, n, 1, step)
    BY <1>1, RecursionExists
  <2> QED BY <2>1 DEF Recursion
<1>4. ASSUME NEW k \in 0 .. n PROVE f[k] = IF k = 0 THEN 1 ELSE f[k - 1] * copies[k]
  <2>1. CASE k = 0
    BY <1>3, <2>1
  <2>2. CASE k # 0
    <3>1. k \in 1 .. n /\ k - 1 \in 0 .. n
      BY <2>2
    <3>2. f[k] = step[k][f[k - 1]] /\ f[k - 1] \in Nat
      BY <1>3, <3>1
    <3>3. step[k][f[k - 1]] = f[k - 1] * copies[k]
      BY <1>2, <3>1, <3>2
    <3> QED BY <2>2, <3>2, <3>3
  <2> QED BY <2>1, <2>2
<1>5. f = [k \in 0 .. n |-> IF k = 0 THEN 1 ELSE f[k - 1] * copies[k]]
  BY <1>4
<1> QED BY <1>5 DEF IsFactor

IsFlat(f, seqs) == f = [k \in 0 .. Len(seqs) |-> IF k = 0 THEN <<>> ELSE f[k - 1] \o seqs[k]]

LEMMA FlatExists ==
  ASSUME NEW S, NEW seqs \in Seq(Seq(S))
  PROVE  \E f \in [0 .. Len(seqs) -> Seq(S)] : IsFlat(f, seqs)
<1> DEFINE n == Len(seqs)
           step == [k \in 1 .. n |-> [x \in Seq(S) |-> x \o seqs[k]]]
<1>0. n \in Nat /\ \A k \in 1 .. n : seqs[k] \in Seq(S)
  OBVIOUS
<1>1. step \in [1 .. n -> [Seq(S) -> Seq(S)]]
  <2>1. ASSUME NEW k \in 1 .. n PROVE [x \in Seq(S) |-> x \o seqs[k]] \in [Seq(S) -> Seq(S)]
    <3>1. \A x \in Seq(S) : x \o seqs[k] \in Seq(S)
      BY <1>0, ConcatProperties
    <3> QED BY <3>1
  <2> QED BY <2>1
<1>2. \A k \in 1 .. n, x \in Seq(S) : step[k][x] = x \o seqs[k]
  OBVIOUS
<1>3. <<>> \in Seq(S)
  OBVIOUS
<1> HIDE DEF step, n
<1>4. PICK f \in [0 .. n -> Seq(S)] : f[0] = <<>> /\ \A k \in 1 .. n : f[k] = step[k][f[k - 1]]
  <2>1. \E f \in [0 .. n -> Seq(S)] : Recursion(f, n, <<>>, step)
    BY <1>0, <1>1, <1>3, RecursionExists
  <2> QED BY <2>1 DEF Recursion
<1>5. ASSUME NEW k \in 0 .. n PROVE f[k] = IF k = 0 THEN <<>> ELSE f[k - 1] \o seqs[k]
  <2>1. CASE k = 0
    BY <1>4, <2>1
  <2>2. CASE k # 0
    <3>1. k \in 1 .. n /\ k - 1 \in 0 .. n
      BY <1>0, <2>2
    <3>2. f[k] = step[k][f[k - 1]] /\ f[k - 1] \in Seq(S)
      BY <1>4, <3>1
    <3>3. step[k][f[k - 1]] = f[k - 1] \o seqs[k]
      BY <1>2, <3>1, <3>2
    <3> QED BY <2>2, <3>2, <3>3
  <2> QED BY <2>1, <2>2
<1>6. f = [k \in 0 .. n |-> IF k = 0 THEN <<>> ELSE f[k - 1] \o seqs[k]]
  BY <1>5
<1> QED BY <1>6 DEF IsFlat, n

FlatWithin(f, seqs, S) ==
  /\ f \in [0 .. Len(seqs) -> Seq(S)]
  /\ f[0] = <<>>
  /\ \A k \in 1 .. Len(seqs) : f[k] = f[k - 1] \o seqs[k]

LEMMA FlatFacts ==
  ASSUME NEW S, NEW seqs \in Seq(Seq(S)), NEW f, IsFlat(f, seqs)
  PROVE  FlatWithin(f, seqs, S)
<1> DEFINE n == Len(seqs)
           T == {k \in 0 .. n : f[k] \in Seq(S)}
<1>1. n \in Nat /\ \A k \in 1 .. n : seqs[k] \in Seq(S)
  OBVIOUS
<1>2. f[0] = <<>> /\ \A k \in 1 .. n : f[k] = f[k - 1] \o seqs[k]
  <2>1. \A k \in 0 .. n : f[k] = IF k = 0 THEN <<>> ELSE f[k - 1] \o seqs[k]
    BY DEF IsFlat
  <2>2. 0 \in 0 .. n /\ \A k \in 1 .. n : k \in 0 .. n /\ k # 0
    BY <1>1
  <2> HIDE DEF n
  <2> QED BY <2>1, <2>2
<1>3. 0 \in T
  <2>1. f[0] \in Seq(S)
    BY <1>2
  <2> QED BY <1>1, <2>1
<1>4. ASSUME NEW k \in 1 .. n, k - 1 \in T PROVE k \in T
  <2>1. f[k - 1] \in Seq(S)
    BY <1>4
  <2>2. f[k] = f[k - 1] \o seqs[k] /\ seqs[k] \in Seq(S)
    BY <1>1, <1>2
  <2>3. f[k] \in Seq(S)
    BY <2>1, <2>2, ConcatProperties
  <2>4. k \in 0 .. n
    BY <1>1
  <2> QED BY <2>3, <2>4
<1>5. \A k \in 0 .. n : k \in T
  <2>1. T \in SUBSET (0 .. n)
    OBVIOUS
  <2> HIDE DEF T, n
  <2> QED BY <1>1, <1>3, <1>4, <2>1, UpTo
<1>6. \A k \in 0 .. n : f[k] \in Seq(S)
  BY <1>5
<1>7. f \in [0 .. n -> Seq(S)]
  BY <1>6 DEF IsFlat
<1> QED BY <1>2, <1>7 DEF FlatWithin

LEMMA FlatToFacts ==
  ASSUME NEW S, NEW seqs \in Seq(Seq(S))
  PROVE  /\ FlatTo(seqs) \in [0 .. Len(seqs) -> Seq(S)]
         /\ FlatTo(seqs)[0] = <<>>
         /\ \A k \in 1 .. Len(seqs) : FlatTo(seqs)[k] = FlatTo(seqs)[k - 1] \o seqs[k]
<1> DEFINE f == CHOOSE g : IsFlat(g, seqs)
<1>1. FlatTo(seqs) = f
  BY Zenon DEF FlatTo, IsFlat
<1>2. \E g : IsFlat(g, seqs)
  BY FlatExists
<1>3. IsFlat(f, seqs)
  BY <1>2
<1> HIDE DEF f
<1>4. FlatWithin(f, seqs, S)
  BY <1>3, FlatFacts
<1> QED BY <1>1, <1>4 DEF FlatWithin

\* FlattenSeq begins with seqs[1] where FlatTo begins with nothing.
Flattens(g, seqs) ==
  g = [i \in 1 .. Len(seqs) |-> IF i = 1 THEN seqs[i] ELSE g[i - 1] \o seqs[i]]

LEMMA FlattenIsFlat ==
  ASSUME NEW S, NEW seqs \in Seq(Seq(S))
  PROVE  FlattenSeq(seqs) = FlatTo(seqs)[Len(seqs)]
<1>1. PICK f : f = FlatTo(seqs)
  OBVIOUS
<1>2. /\ f \in [0 .. Len(seqs) -> Seq(S)] /\ f[0] = <<>>
      /\ \A k \in 1 .. Len(seqs) : f[k] = f[k - 1] \o seqs[k]
  BY <1>1, FlatToFacts
<1>3. PICK n \in Nat : n = Len(seqs)
  OBVIOUS
<1>0. \A k \in 1 .. n : f[k] = f[k - 1] \o seqs[k] /\ seqs[k] \in Seq(S)
  <2>1. \A k \in 1 .. n : seqs[k] \in Seq(S)
    BY <1>3
  <2> QED BY <1>2, <1>3, <2>1
<1>4. CASE n = 0
  <2>1. seqs = <<>> /\ FlattenSeq(seqs) = seqs
    <3>1. seqs = <<>>
      BY <1>3, <1>4, EmptySeq
    <3>2. FlattenSeq(seqs) = seqs
      BY <1>3, <1>4, Zenon DEF FlattenSeq
    <3> QED BY <3>1, <3>2
  <2> QED BY <1>1, <1>2, <1>3, <1>4, <2>1
<1>5. CASE n # 0
  <2> DEFINE c == CHOOSE g : Flattens(g, seqs)
             h == [i \in 1 .. n |-> f[i]]
  <2>1. FlattenSeq(seqs) = c[n]
    BY <1>3, <1>5, Zenon DEF FlattenSeq, Flattens
  <2>2. Flattens(h, seqs)
    <3>1. ASSUME NEW i \in 1 .. n PROVE h[i] = IF i = 1 THEN seqs[i] ELSE h[i - 1] \o seqs[i]
      <4>1. h[i] = f[i] /\ f[i] = f[i - 1] \o seqs[i] /\ seqs[i] \in Seq(S)
        BY <1>0
      <4>2. CASE i = 1
        <5>1. f[i - 1] = <<>>
          BY <1>2, <4>2
        <5>2. <<>> \o seqs[i] = seqs[i]
          BY <4>1, ConcatEmptySeq
        <5> QED BY <4>1, <4>2, <5>1, <5>2
      <4>3. CASE i # 1
        <5>1. h[i - 1] = f[i - 1]
          BY <4>3
        <5> QED BY <4>1, <4>3, <5>1
      <4> QED BY <4>2, <4>3
    <3> QED BY <1>3, <3>1 DEF Flattens
  <2>3. Flattens(c, seqs)
    <3> HIDE DEF h
    <3> QED BY <2>2
  <2> HIDE DEF c, h
  <2>4. \A i \in 1 .. n : c[i] = IF i = 1 THEN seqs[i] ELSE c[i - 1] \o seqs[i]
    BY <1>3, <2>3 DEF Flattens
  <2> DEFINE T == {k \in 0 .. n : k = 0 \/ c[k] = f[k]}
  <2>5. ASSUME NEW k \in 1 .. n, k - 1 \in T PROVE k \in T
    <3>1. f[k] = f[k - 1] \o seqs[k] /\ seqs[k] \in Seq(S)
      BY <1>0
    <3>2. CASE k = 1
      <4>1. f[k - 1] = <<>> /\ c[k] = seqs[k]
        BY <1>2, <2>4, <3>2
      <4>2. <<>> \o seqs[k] = seqs[k]
        BY <3>1, ConcatEmptySeq
      <4> QED BY <3>1, <4>1, <4>2
    <3>3. CASE k # 1
      <4>1. c[k - 1] = f[k - 1]
        BY <2>5, <3>3
      <4>2. c[k] = c[k - 1] \o seqs[k]
        BY <2>4, <3>3
      <4>3. c[k] = f[k]
        BY <3>1, <4>1, <4>2
      <4> QED BY <4>3
    <3> QED BY <3>2, <3>3
  <2>6. n \in T
    <3>1. T \in SUBSET (0 .. n) /\ 0 \in T /\ n \in 0 .. n
      OBVIOUS
    <3> HIDE DEF T
    <3> QED BY <2>5, <3>1, UpTo
  <2> QED BY <1>1, <1>3, <1>5, <2>1, <2>6
<1> QED BY <1>4, <1>5

-----------------------------------------------------------------------------
(* The operators *)

Copied(op, rows) == [i \in DOMAIN rows |-> [k \in 1 .. Copies(op, rows[i]) |-> rows[i]]]

\* An operator makes Copies(op, r) rows of every r in the chunk.
LEMMA ThroughCopies ==
  ASSUME NEW S, NEW rows \in Seq(S), NEW op, \A x \in S : Copies(op, x) \in Nat
  PROVE  /\ Through(op, rows) \in Seq(S)
         /\ \A r \in S : Count(r, Through(op, rows)) = Count(r, rows) * Copies(op, r)
<1>1. PICK seqs : seqs = Copied(op, rows)
  OBVIOUS
<1>2. PICK n \in Nat : n = Len(rows) /\ DOMAIN rows = 1 .. n
  OBVIOUS
<1>3. ASSUME NEW i \in 1 .. n
      PROVE  /\ seqs[i] = [k \in 1 .. Copies(op, rows[i]) |-> rows[i]]
             /\ rows[i] \in S /\ Copies(op, rows[i]) \in Nat /\ seqs[i] \in Seq(S)
  <2>1. seqs[i] = [k \in 1 .. Copies(op, rows[i]) |-> rows[i]]
    BY <1>1, <1>2 DEF Copied
  <2>2. rows[i] \in S /\ Copies(op, rows[i]) \in Nat
    BY <1>2
  <2> QED BY <2>1, <2>2
<1>4. seqs \in Seq(Seq(S)) /\ Len(seqs) = n
  <2>1. DOMAIN seqs = 1 .. n /\ seqs = [i \in 1 .. n |-> seqs[i]]
    BY <1>1, <1>2 DEF Copied
  <2> QED BY <1>3, <2>1
<1>5. PICK f : f = FlatTo(seqs)
  OBVIOUS
<1>6. /\ f \in [0 .. n -> Seq(S)] /\ f[0] = <<>>
      /\ \A k \in 1 .. n : f[k] = f[k - 1] \o seqs[k]
  BY <1>4, <1>5, FlatToFacts
<1>7. Through(op, rows) = f[n]
  <2>1. Through(op, rows) = FlattenSeq(seqs)
    BY <1>1 DEF Through, Copied
  <2> QED BY <1>4, <1>5, <2>1, FlattenIsFlat
<1>8. ASSUME NEW r \in S PROVE Count(r, f[n]) = Count(r, rows) * Copies(op, r)
  <2>1. PICK c \in Nat : c = Copies(op, r)
    OBVIOUS
  <2> DEFINE T == {k \in 0 .. n : Count(r, f[k]) = CountTo(r, rows, k) * c}
  <2>2. 0 \in T
    <3>1. CountTo(r, rows, 0) = 0 /\ Count(r, f[0]) = 0
      BY <1>6, CountToStep, CountEmpty
    <3> QED BY <3>1
  <2>3. ASSUME NEW k \in 1 .. n, k - 1 \in T PROVE k \in T
    <3>1. PICK m \in Nat : m = k - 1 /\ k = m + 1
      OBVIOUS
    <3>2. Count(r, f[m]) = CountTo(r, rows, m) * c
      BY <2>3, <3>1
    <3>3. f[m] \in Seq(S) /\ f[k] = f[m] \o seqs[k] /\ seqs[k] \in Seq(S)
      <4>1. m \in 0 .. n
        BY <3>1
      <4>2. f[m] \in Seq(S)
        BY <1>6, <4>1
      <4>3. f[k] = f[m] \o seqs[k]
        BY <1>6, <3>1
      <4> QED BY <1>3, <4>2, <4>3
    <3>4. Count(r, f[k]) = Count(r, f[m]) + Count(r, seqs[k])
      BY <3>3, CountConcat
    <3>5. Count(r, seqs[k]) = IF rows[k] = r THEN Copies(op, rows[k]) ELSE 0
      <4>1. seqs[k] = Repeat(rows[k], Copies(op, rows[k])) /\ Copies(op, rows[k]) \in Nat
        BY <1>3 DEF Repeat
      <4> QED BY <4>1, CountRepeat
    <3>6. /\ CountTo(r, rows, m) \in Nat
          /\ rows[k] = r => CountTo(r, rows, k) = CountTo(r, rows, m) + 1
          /\ rows[k] # r => CountTo(r, rows, k) = CountTo(r, rows, m)
      BY <3>1, CountToStep
    <3>7. Count(r, f[k]) = CountTo(r, rows, k) * c
      <4>1. CASE rows[k] = r
        <5>1. Count(r, seqs[k]) = c /\ CountTo(r, rows, k) = CountTo(r, rows, m) + 1
          BY <2>1, <3>5, <3>6, <4>1
        <5> QED BY <3>2, <3>4, <3>6, <5>1
      <4>2. CASE rows[k] # r
        <5>1. Count(r, seqs[k]) = 0 /\ CountTo(r, rows, k) = CountTo(r, rows, m)
          BY <3>5, <3>6, <4>2
        <5> QED BY <3>2, <3>4, <3>6, <5>1
      <4> QED BY <4>1, <4>2
    <3> QED BY <3>7
  <2>4. n \in T
    <3>1. T \in SUBSET (0 .. n) /\ n \in 0 .. n
      OBVIOUS
    <3> HIDE DEF T
    <3> QED BY <2>2, <2>3, <3>1, UpTo
  <2>5. Count(r, f[n]) = CountTo(r, rows, n) * c
    BY <2>4
  <2>6. Count(r, rows) = CountTo(r, rows, n)
    BY <1>2, CountIsTo
  <2> QED BY <2>1, <2>5, <2>6
<1> QED BY <1>6, <1>7, <1>8

LEMMA OperatorFacts ==
  ASSUME input \in Inputs
  PROVE  /\ Len(operators) \in Nat /\ DOMAIN operators = 1 .. Len(operators)
         /\ \A k \in 1 .. Len(operators), r \in RowsOfSource(source) :
              Copies(operators[k], r) \in Nat
<1>1. operators \in Seq(ToSet(operators))
  BY InputAssumption DEF operators
<1>2. Len(operators) \in Nat /\ DOMAIN operators = 1 .. Len(operators)
  BY <1>1
<1>3. ASSUME NEW k \in 1 .. Len(operators), NEW r \in RowsOfSource(source)
      PROVE  Copies(operators[k], r) \in Nat
  <2>1. PICK op \in ToSet(operators) : op = operators[k]
    BY <1>2 DEF ToSet
  <2>2. /\ op.kind \in {"filter", "project", "join"}
        /\ op.kind = "join" => op.matches[r] \in Nat
    BY InputAssumption DEF operators, source
  <2>3. Copies(op, r) \in Nat
    BY <2>2 DEF Copies
  <2> QED BY <2>1, <2>3
<1> QED BY <1>2, <1>3

LEMMA FactorsFacts ==
  ASSUME input \in Inputs, NEW r \in RowsOfSource(source)
  PROVE  /\ Factors(r) \in [0 .. Len(operators) -> Nat]
         /\ Factors(r)[0] = 1
         /\ \A k \in 1 .. Len(operators) :
              Factors(r)[k] = Factors(r)[k - 1] * Copies(operators[k], r)
<1>1. PICK n \in Nat : n = Len(operators)
  BY OperatorFacts
<1>2. PICK copies \in [1 .. n -> Nat] : \A k \in 1 .. n : copies[k] = Copies(operators[k], r)
  <2> DEFINE c == [k \in 1 .. n |-> Copies(operators[k], r)]
  <2>1. c \in [1 .. n -> Nat] /\ \A k \in 1 .. n : c[k] = Copies(operators[k], r)
    BY <1>1, OperatorFacts
  <2> HIDE DEF c
  <2> QED BY <2>1
<1> DEFINE IsF(g) == g = [k \in 0 .. n |-> IF k = 0 THEN 1 ELSE g[k - 1] * Copies(operators[k], r)]
           f == CHOOSE g : IsF(g)
<1>3. Factors(r) = f
  BY <1>1, Zenon DEF Factors
<1>4. PICK g \in [0 .. n -> Nat] : IsFactor(g, n, copies)
  BY FactorExists
<1>5. \A k \in 0 .. n : k = 0 \/ k \in 1 .. n
  OBVIOUS
<1>6. IsF(g)
  <2>1. [k \in 0 .. n |-> IF k = 0 THEN 1 ELSE g[k - 1] * Copies(operators[k], r)]
        = [k \in 0 .. n |-> IF k = 0 THEN 1 ELSE g[k - 1] * copies[k]]
    BY <1>2, <1>5
  <2> QED BY <1>4, <2>1 DEF IsFactor
<1>7. IsF(f)
  BY <1>6
<1> HIDE DEF f
<1>8. /\ DOMAIN f = 0 .. n /\ f[0] = 1
      /\ \A k \in 1 .. n : f[k] = f[k - 1] * Copies(operators[k], r)
  <2>1. DOMAIN f = 0 .. n /\ \A k \in 0 .. n :
          f[k] = IF k = 0 THEN 1 ELSE f[k - 1] * Copies(operators[k], r)
    BY <1>7
  <2>2. 0 \in 0 .. n /\ \A k \in 1 .. n : k \in 0 .. n /\ k # 0
    OBVIOUS
  <2> QED BY <2>1, <2>2
<1> DEFINE T == {k \in 0 .. n : f[k] \in Nat}
<1>9. 0 \in T
  BY <1>8
<1>10. ASSUME NEW k \in 1 .. n, k - 1 \in T PROVE k \in T
  <2>1. f[k - 1] \in Nat /\ f[k] = f[k - 1] * copies[k] /\ copies[k] \in Nat /\ k \in 0 .. n
    BY <1>2, <1>8, <1>10
  <2> QED BY <2>1
<1>11. \A k \in 0 .. n : k \in T
  <2>1. T \in SUBSET (0 .. n)
    OBVIOUS
  <2> HIDE DEF T
  <2> QED BY <1>9, <1>10, <2>1, UpTo
<1>12. f \in [0 .. n -> Nat]
  <2>1. \A k \in 0 .. n : f[k] \in Nat
    BY <1>11
  <2>2. f = [k \in 0 .. n |-> f[k]]
    BY <1>7
  <2> QED BY <2>1, <2>2
<1> QED BY <1>1, <1>3, <1>8, <1>12

-----------------------------------------------------------------------------
(* One step of the loop, and where the rows are after it *)

LEMMA ShareIsASlice ==
  ASSUME input \in Inputs, source.kind = "order"
  PROVE  /\ Share \in Seq(RowsOfSource(source))
         /\ row_nums > source.parallelism => Len(Share) = row_per_pipeline
         /\ row_nums = 0 => Share = <<>>
<1>1. PICK S, result, n, p, d :
      /\ S = RowsOfSource(source) /\ result = source.result /\ n = row_nums
      /\ p = source.parallelism /\ d = source.pipeline_id
  OBVIOUS
<1>0. result \in Seq(S) /\ n \in Nat /\ p \in Nat \ {0} /\ d \in 0 .. p - 1
  BY <1>1, ResultFacts, OrderFacts
<1>2. n = Len(result)
  BY <1>0, <1>1 DEF row_nums
<1>3. CASE n <= p
  <2>1. Share = IF d < n THEN <<result[d + 1]>> ELSE <<>>
    BY <1>0, <1>1, <1>3 DEF Share
  <2>2. d < n => result[d + 1] \in S
    BY <1>0, <1>2
  <2>3. Share \in Seq(S)
    BY <2>1, <2>2
  <2>4. n = 0 => ~(d < n)
    BY <1>0
  <2>5. n = 0 => Share = <<>>
    BY <2>1, <2>4
  <2>6. ~(n > p)
    BY <1>0, <1>3
  <2> QED BY <1>1, <2>3, <2>5, <2>6
<1>4. CASE n > p
  <2>1. PICK q : q = n \div p
    OBVIOUS
  <2>2. q \in Int /\ q * p <= n /\ q >= 1
    BY <1>0, <1>4, <2>1, EveryoneHasAShare
  <2>3. PICK w : w = row_per_pipeline
    OBVIOUS
  <2>4. w \in Nat /\ w >= 1
    BY <1>0, <1>1, <1>4, <2>3, ShareFacts
  <2>5. w = IF d # p - 1 THEN q ELSE n - d * q
    BY <1>0, <1>1, <2>1, <2>3 DEF row_per_pipeline
  <2>6. PICK start : start = d * q
    OBVIOUS
  <2>7. start \in Nat
    BY <1>0, <2>2, <2>6
  <2>8. start + w <= n
    <3>1. CASE d = p - 1
      BY <1>0, <2>2, <2>4, <2>5, <2>6, <3>1
    <3>2. CASE d # p - 1
      <4>1. (d + 1) * q <= p * q
        BY <1>0, <2>2, <3>2
      <4>2. start + w = (d + 1) * q
        BY <1>0, <2>2, <2>5, <2>6, <3>2
      <4>3. p * q <= n
        BY <1>0, <2>2
      <4> QED BY <1>0, <2>2, <2>4, <2>7, <4>1, <4>2, <4>3
    <3> QED BY <3>1, <3>2
  <2>9. Share = SubSeq(result, start + 1, start + w)
    <3>1. ~(row_nums <= source.parallelism)
      BY <1>0, <1>1, <1>4
    <3> QED BY <1>0, <1>1, <2>1, <2>3, <2>6, <3>1 DEF Share
  <2>10. SubSeq(result, start + 1, start + w) \in Seq(S)
         /\ Len(SubSeq(result, start + 1, start + w)) = w
    BY <1>0, <1>2, <2>4, <2>7, <2>8
  <2>11. n # 0
    BY <1>0, <1>4
  <2> QED BY <1>1, <2>3, <2>9, <2>10, <2>11
<1> QED BY <1>0, <1>3, <1>4

LEMMA RowsTyped ==
  ASSUME input \in Inputs
  PROVE  Rows \in Seq(RowsOfSource(source))
<1>1. source.kind \in {"table_scan", "multi_field_agg", "hash_agg", "order"}
  BY InputAssumption DEF source
<1>2. CASE source.kind = "table_scan"
  <2>1. PICK S, chunks : S = RowsOfSource(source) /\ chunks = source.chunks
    OBVIOUS
  <2>0. chunks \in Seq(Seq(S))
    BY <1>2, <2>1, ScanFacts
  <2>2. FlattenSeq(chunks) = FlatTo(chunks)[Len(chunks)]
        /\ FlatTo(chunks) \in [0 .. Len(chunks) -> Seq(S)]
    BY <2>0, FlattenIsFlat, FlatToFacts
  <2>3. Len(chunks) \in 0 .. Len(chunks)
    BY <2>0
  <2>4. FlattenSeq(chunks) \in Seq(S)
    BY <2>2, <2>3
  <2> QED BY <1>2, <2>1, <2>4 DEF Rows
<1>3. CASE source.kind = "order"
  BY <1>3, ShareIsASlice DEF Rows
<1>4. CASE source.kind \in {"multi_field_agg", "hash_agg"}
  BY <1>4, ResultFacts DEF Rows
<1> QED BY <1>1, <1>2, <1>3, <1>4

LEMMA PipelineKept ==
  ASSUME input' = input
  PROVE  /\ Share' = Share /\ Rows' = Rows /\ EndsWell' = EndsWell
         /\ source' = source /\ operators' = operators
         /\ RowsOfSource(source)' = RowsOfSource(source)
         /\ row_nums' = row_nums /\ row_per_pipeline' = row_per_pipeline
         /\ \A r : Factors(r)' = Factors(r)
<1>1. source' = source /\ operators' = operators /\ row_nums' = row_nums
      /\ row_per_pipeline' = row_per_pipeline
  BY InputKept
<1>2. Share' = Share
  BY <1>1 DEF Share
<1>3. Rows' = Rows
  BY <1>1, <1>2 DEF Rows
<1>4. EndsWell' = EndsWell
  BY <1>1 DEF EndsWell
<1>5. \A r : Factors(r)' = Factors(r)
  BY <1>1 DEF Factors
<1>6. RowsOfSource(source)' = RowsOfSource(source)
  BY <1>1 DEF RowsOfSource
<1> QED BY <1>1, <1>2, <1>3, <1>4, <1>5, <1>6

LEMMA ChunkRows ==
  ASSUME NEW rows PROVE Chunk(rows).rows = rows /\ NoChunk.rows = <<>>
BY DEF Chunk, NoChunk

LEMMA ChunkTyped ==
  ASSUME StageInv
  PROVE  temporary_chunk.rows \in Seq(RowsOfSource(source))
<1>1. PICK rows \in Seq(RowsOfSource(source)) :
        temporary_chunk = Chunk(rows) \/ (temporary_chunk = NoChunk /\ rows = <<>>)
  BY DEF StageInv
<1>2. temporary_chunk.rows = rows
  BY <1>1, ChunkRows
<1> QED BY <1>1, <1>2

\* What Gone is for each kind of source.
LEMMA GoneIs ==
  ASSUME FlowInv, RowInv, NEW r \in RowsOfSource(source)
  PROVE  /\ source.kind = "table_scan" =>
              Gone(r) = Count(r, FlatTo(source.chunks)[idx])
         /\ source.kind \in {"multi_field_agg", "hash_agg"} =>
              Gone(r) = CountTo(r, source.result, IF idx < row_nums THEN idx ELSE row_nums)
         /\ source.kind = "order" /\ row_nums <= source.parallelism =>
              Gone(r) = IF is_final_chunk THEN Count(r, Share) ELSE 0
         /\ source.kind = "order" /\ row_nums > source.parallelism =>
              Gone(r) = CountTo(r, Share, idx)
         /\ Gone(r) \in Nat
<1>1. input \in Inputs /\ idx \in Nat
  BY DEF FlowInv, PlaceInv
<1>2. source.kind \in {"table_scan", "multi_field_agg", "hash_agg", "order"}
  BY <1>1, InputAssumption DEF source
<1>3. CASE source.kind = "table_scan"
  <2>1. PICK S, chunks : S = RowsOfSource(source) /\ chunks = source.chunks
    OBVIOUS
  <2>2. chunks \in Seq(Seq(S))
    BY <1>1, <1>3, <2>1, ScanFacts
  <2>3. idx <= Len(chunks)
    BY <1>3, <2>1 DEF RowInv, GoneInv, SourceAt
  <2>4. FlatTo(chunks) \in [0 .. Len(chunks) -> Seq(S)] /\ idx \in 0 .. Len(chunks)
    <3>1. FlatTo(chunks) \in [0 .. Len(chunks) -> Seq(S)]
      BY <2>2, FlatToFacts
    <3>2. Len(chunks) \in Nat
      BY <2>2
    <3> QED BY <1>1, <2>3, <3>1, <3>2
  <2>5. FlatTo(chunks)[idx] \in Seq(S)
    BY <2>4
  <2>6. Gone(r) = Count(r, FlatTo(chunks)[idx])
    BY <1>3, <2>1 DEF Gone
  <2>7. Gone(r) \in Nat
    BY <2>5, <2>6, CountIsTo
  <2> QED BY <1>3, <2>1, <2>6, <2>7
<1>4. CASE source.kind \in {"multi_field_agg", "hash_agg"}
  <2>1. row_nums \in Nat
    BY <1>1, <1>4, ResultFacts
  <2>2. PICK n \in Nat : n = IF idx < row_nums THEN idx ELSE row_nums
    BY <1>1, <2>1
  <2>3. Gone(r) = CountTo(r, source.result, n)
    BY <1>4, <2>2 DEF Gone
  <2>4. Gone(r) \in Nat
    BY <2>2, <2>3, CountToStep
  <2> QED BY <1>4, <2>2, <2>3, <2>4
<1>5. CASE source.kind = "order" /\ row_nums <= source.parallelism
  <2>0. ~(row_nums > source.parallelism)
    BY <1>1, <1>5, ResultFacts, OrderFacts
  <2>1. Gone(r) = IF is_final_chunk THEN Count(r, Share) ELSE 0
    BY <1>5, <2>0 DEF Gone
  <2>2. Count(r, Share) \in Nat
    BY <1>1, <1>5, ShareIsASlice, CountIsTo
  <2>3. Gone(r) \in Nat
    BY <2>1, <2>2
  <2> QED BY <1>5, <2>0, <2>1, <2>3
<1>6. CASE source.kind = "order" /\ row_nums > source.parallelism
  <2>0. ~(row_nums <= source.parallelism)
    BY <1>1, <1>6, ResultFacts, OrderFacts
  <2>1. Gone(r) = CountTo(r, Share, idx)
    BY <1>6, <2>0 DEF Gone
  <2>2. Gone(r) \in Nat
    BY <1>1, <2>1, CountToStep
  <2> QED BY <1>6, <2>0, <2>1, <2>2
<1>7. source.kind = "order" => row_nums <= source.parallelism \/ row_nums > source.parallelism
  BY <1>1, ResultFacts, OrderFacts
<1> QED BY <1>2, <1>3, <1>4, <1>5, <1>6, <1>7

(* What a source does for the rows: it hands on a new chunk of them, or    *)
(* says FINISHED over an old one that the sink refuses.                    *)
LEMMA FetchKeepsRows ==
  ASSUME FlowInv, RowInv, pc = "source", NEW answer, Fetched(answer),
         NEW rows \in Seq(RowsOfSource(source)),
         temporary_chunk' = Chunk(rows) \/ temporary_chunk' = temporary_chunk,
         NoRows => temporary_chunk' = temporary_chunk,
         SourceAt',
         \A r \in RowsOfSource(source) : Gone(r)' = Gone(r) + Count(r, rows),
         answer = "FINISHED" => \A r \in RowsOfSource(source) : Gone(r)' = Count(r, Rows),
         EndsWell /\ Refused' => \A r \in RowsOfSource(source) : Count(r, rows) = 0,
         EndsWell /\ ~Refused' => temporary_chunk'.rows = rows
  PROVE  RowInv'
<1>1. /\ input' = input /\ sunk' = sunk /\ operator_result' = operator_result
      /\ is_final_chunk' = (is_final_chunk \/ answer = "FINISHED")
      /\ operator_idx' = Len(operators) - 1
      /\ pc' = IF operators = <<>> THEN "sink" ELSE "operators"
  BY DEF Fetched
<1>2. is_final_chunk = FALSE /\ input \in Inputs
  BY DEF FlowInv, LoopInv
<1>3. PICK S : S = RowsOfSource(source) /\ RowsOfSource(source)' = S
  BY <1>1, PipelineKept
<1>4. /\ source' = source /\ operators' = operators /\ Rows' = Rows /\ EndsWell' = EndsWell
      /\ NoRows' = NoRows /\ \A r : Factors(r)' = Factors(r)
  BY <1>1, PipelineKept, InputKept
<1>5. PICK n \in Nat : n = Len(operators)
  BY <1>2, OperatorFacts
<1>6. operators = <<>> <=> n = 0
  BY <1>2, <1>5, OperatorFacts
<1>7. StageInv'
  <2>1. sunk' \in Seq(S) /\ is_final_chunk' \in BOOLEAN
    BY <1>1, <1>2, <1>3 DEF RowInv, StageInv
  <2>2. \E x \in Seq(S) : temporary_chunk' = Chunk(x) \/ (temporary_chunk' = NoChunk /\ x = <<>>)
    BY <1>3 DEF RowInv, StageInv
  <2>3. NoRows' => temporary_chunk' = NoChunk
    BY <1>4 DEF RowInv, StageInv
  <2>4. operators' = <<>> => operator_result' # "NO_MORE_OUTPUT"
    BY <1>1, <1>4 DEF RowInv, StageInv
  <2>5. pc' = "operators" => operator_idx' \in 0 .. Len(operators') - 1
    BY <1>1, <1>4, <1>5, <1>6
  <2>6. pc' = "sink" => operators = <<>> /\ n = 0 /\ operator_idx' = -1
    BY <1>1, <1>5, <1>6
  <2>7. pc' = "sink" => /\ operator_idx' \in -1 .. Len(operators') - 1
                        /\ operator_idx' = -1 /\ operator_result' # "NO_MORE_OUTPUT"
    BY <1>4, <1>5, <2>4, <2>6
  <2> QED BY <1>3, <2>1, <2>2, <2>3, <2>4, <2>5, <2>7 DEF StageInv
<1>8. GoneInv'
  BY <1>1, <1>2, <1>3, <1>4 DEF GoneInv
<1>9. ASSUME EndsWell, NEW r \in S PROVE Balance(r)'
  <2>1. PICK f : f = Factors(r)[n] /\ Factors(r)'[Len(operators)'] = f
    BY <1>4, <1>5
  <2>2. Count(r, sunk) = Gone(r) * f
    BY <1>3, <1>5, <1>9, <2>1 DEF RowInv, Balance
  <2>3. f \in Nat /\ Count(r, sunk) \in Nat /\ Count(r, rows) \in Nat
    <3>1. Factors(r) \in [0 .. n -> Nat] /\ n \in 0 .. n
      BY <1>2, <1>3, <1>5, FactorsFacts
    <3>2. sunk \in Seq(S)
      BY <1>3 DEF RowInv, StageInv
    <3> QED BY <1>3, <2>1, <3>1, <3>2, CountIsTo
  <2>4. Held(r)' = Count(r, rows) * f
    <3>1. CASE Refused'
      <4>1. Held(r)' = 0 /\ Count(r, rows) = 0
        BY <1>3, <1>9, <3>1 DEF Held
      <4> QED BY <2>3, <4>1
    <3>2. CASE ~Refused'
      <4>1. operator_idx' + 1 = n
        BY <1>1, <1>5
      <4>2. Held(r)' = Count(r, temporary_chunk'.rows) * Factors(r)'[operator_idx' + 1]
        BY <3>2 DEF Held, Count
      <4>3. temporary_chunk'.rows = rows
        BY <1>9, <3>2
      <4> QED BY <1>4, <2>1, <4>1, <4>2, <4>3
    <3> QED BY <3>1, <3>2
  <2>5. Gone(r)' = Gone(r) + Count(r, rows)
    BY <1>3
  <2>6. Gone(r) \in Nat
    BY <1>3, GoneIs
  <2>7. Count(r, sunk) + Held(r)' = Gone(r)' * f
    BY <2>2, <2>3, <2>4, <2>5, <2>6
  <2>8. pc' \in {"operators", "sink"} /\ Count(r, sunk)' = Count(r, sunk)
    BY <1>1 DEF Count
  <2> QED BY <2>1, <2>7, <2>8 DEF Balance
<1>10. pc' # "done"
  BY <1>1
<1> QED BY <1>3, <1>4, <1>7, <1>8, <1>9, <1>10 DEF RowInv

LEMMA ScanKeepsRows ==
  ASSUME FlowInv, RowInv, ScanGetData
  PROVE  RowInv'
<1>1. /\ pc = "source" /\ source.kind = "table_scan" /\ idx \in Nat /\ input \in Inputs
      /\ is_final_chunk = FALSE /\ ~NoRows
  BY DEF ScanGetData, FlowInv, PlaceInv, LoopInv, NoRows
<1>2. PICK S, chunks, f :
        S = RowsOfSource(source) /\ chunks = source.chunks /\ f = FlatTo(chunks)
  OBVIOUS
<1>3. chunks \in Seq(Seq(S) \ {<<>>}) /\ chunks \in Seq(Seq(S))
  BY <1>1, <1>2, ScanFacts
<1>4. PICK n \in Nat : n = Len(chunks) /\ idx <= n
  BY <1>1, <1>2, <1>3 DEF RowInv, GoneInv, SourceAt
<1>5. /\ f \in [0 .. n -> Seq(S)]
      /\ \A k \in 1 .. n : f[k] = f[k - 1] \o chunks[k]
      /\ Rows = f[n]
  <2>1. Rows = FlattenSeq(chunks)
    BY <1>1, <1>2 DEF Rows
  <2>2. FlattenSeq(chunks) = f[n]
    BY <1>2, <1>3, <1>4, FlattenIsFlat
  <2>3. /\ f \in [0 .. n -> Seq(S)]
        /\ \A k \in 1 .. n : f[k] = f[k - 1] \o chunks[k]
    BY <1>2, <1>3, <1>4, FlatToFacts
  <2> QED BY <2>1, <2>2, <2>3
<1>6. \A r \in S : Gone(r) = Count(r, f[idx])
  BY <1>1, <1>2, GoneIs
<1>7. input' = input => /\ \A r \in S : Gone(r)' = Count(r, f[idx'])
                        /\ SourceAt' <=> idx' <= n
  <2> SUFFICES ASSUME input' = input
               PROVE  (\A r \in S : Gone(r)' = Count(r, f[idx'])) /\ (SourceAt' <=> idx' <= n)
    OBVIOUS
  <2>1. source' = source
    BY PipelineKept
  <2>2. ASSUME NEW r \in S PROVE Gone(r)' = Count(r, f[idx'])
    <3>1. source'.kind = "table_scan"
      BY <1>1, <2>1
    <3>2. Gone(r)' = Count(r, FlatTo(source.chunks)[idx])'
      BY <3>1 DEF Gone
    <3>3. FlatTo(source.chunks)' = f
      BY <1>2, <2>1 DEF FlatTo
    <3>4. Count(r, FlatTo(source.chunks)[idx])' = Count(r, FlatTo(source.chunks)'[idx'])
      BY DEF Count
    <3> QED BY <3>2, <3>3, <3>4
  <2>3. SourceAt' <=> idx' <= n
    BY <1>1, <1>2, <1>4, <2>1 DEF SourceAt
  <2> QED BY <2>2, <2>3
<1>8. CASE idx >= n
  <2>1. /\ temporary_chunk' = Chunk(<<>>) /\ idx' = idx /\ Fetched("FINISHED")
    BY <1>1, <1>2, <1>4, <1>8 DEF ScanGetData
  <2>2. input' = input /\ idx = n
    BY <1>1, <1>4, <1>8, <2>1 DEF Fetched
  <2>3. \A r \in S : Count(r, <<>>) = 0 /\ Gone(r) \in Nat
    BY <1>2, CountEmpty, GoneIs
  <2>4. \A r \in S : Gone(r)' = Gone(r) + Count(r, <<>>) /\ Gone(r)' = Count(r, Rows)
    BY <1>5, <1>6, <1>7, <2>1, <2>2, <2>3
  <2>5. <<>> \in Seq(S) /\ SourceAt' /\ temporary_chunk'.rows = <<>>
    BY <1>4, <1>7, <2>1, <2>2, ChunkRows
  <2> QED BY <1>1, <1>2, <2>1, <2>3, <2>4, <2>5, FetchKeepsRows
<1>9. CASE idx < n
  <2>1. PICK rows : rows = chunks[idx + 1]
    OBVIOUS
  <2>2. rows \in Seq(S) /\ rows # <<>> /\ idx + 1 \in 1 .. n
    BY <1>1, <1>3, <1>4, <1>9, <2>1
  <2>3. temporary_chunk' = Chunk(rows) /\ idx' = idx + 1 /\ Fetched("HAVE_MORE_OUTPUT")
    BY <1>1, <1>2, <1>4, <1>9, <2>1, <2>2 DEF ScanGetData
  <2>4. input' = input /\ ~Refused'
    BY <1>1, <2>3 DEF Fetched, Refused
  <2>5. ASSUME NEW r \in S PROVE Gone(r)' = Gone(r) + Count(r, rows)
    <3>1. f[idx + 1] = f[(idx + 1) - 1] \o chunks[idx + 1]
      BY <1>5, <2>2
    <3>2. (idx + 1) - 1 = idx /\ idx \in 0 .. n
      BY <1>1, <1>4
    <3>3. f[idx] \in Seq(S) /\ f[idx + 1] = f[idx] \o rows
      BY <1>5, <2>1, <3>1, <3>2
    <3>4. Count(r, f[idx + 1]) = Count(r, f[idx]) + Count(r, rows)
      BY <2>2, <3>3, CountConcat
    <3> QED BY <1>6, <1>7, <2>3, <2>4, <3>4
  <2>6. SourceAt' /\ temporary_chunk'.rows = rows
    BY <1>1, <1>4, <1>7, <1>9, <2>3, <2>4, ChunkRows
  <2> QED BY <1>1, <1>2, <2>2, <2>3, <2>4, <2>5, <2>6, FetchKeepsRows
<1> QED BY <1>1, <1>4, <1>8, <1>9

\* Both aggregations hand on a slice of their result.
LEMMA SliceKeepsRows ==
  ASSUME FlowInv, RowInv, pc = "source", source.kind \in {"multi_field_agg", "hash_agg"},
         NEW b \in Nat, idx <= b, b <= row_nums,
         temporary_chunk' = Chunk(SubSeq(source.result, idx + 1, b)),
         idx' \in Nat, b = IF idx' < row_nums THEN idx' ELSE row_nums,
         Fetched("HAVE_MORE_OUTPUT")
  PROVE  RowInv'
<1>1. idx \in Nat /\ input \in Inputs /\ is_final_chunk = FALSE /\ ~NoRows
  BY DEF FlowInv, PlaceInv, LoopInv, NoRows
<1>2. PICK S, result : S = RowsOfSource(source) /\ result = source.result
  OBVIOUS
<1>3. result \in Seq(S) /\ row_nums \in Nat /\ row_nums = Len(result)
  BY <1>1, <1>2, ResultFacts DEF row_nums
<1>4. PICK rows : rows = SubSeq(result, idx + 1, b)
  OBVIOUS
<1>5. input' = input /\ ~Refused'
  BY <1>1 DEF Fetched, Refused
<1>6. source' = source /\ row_nums' = row_nums
  BY <1>5, PipelineKept
<1>7. idx = IF idx < row_nums THEN idx ELSE row_nums
  BY <1>1, <1>3
<1>8. rows \in Seq(S) /\ \A r : CountTo(r, result, b) = CountTo(r, result, idx) + Count(r, rows)
  BY <1>1, <1>3, <1>4, CountSubSeq
<1>9. ASSUME NEW r \in S PROVE Gone(r)' = Gone(r) + Count(r, rows)
  <2>1. Gone(r) = CountTo(r, result, idx)
    BY <1>2, <1>7, GoneIs
  <2>2. Gone(r)' = CountTo(r, result, b)
    BY <1>2, <1>6 DEF Gone, CountTo
  <2> QED BY <1>8, <2>1, <2>2
<1>10. SourceAt' /\ temporary_chunk'.rows = rows /\ temporary_chunk' = Chunk(rows)
  BY <1>2, <1>4, <1>6, ChunkRows DEF SourceAt
<1> QED BY <1>1, <1>2, <1>5, <1>8, <1>9, <1>10, FetchKeepsRows

LEMMA TakeRestKeepsRows ==
  ASSUME FlowInv, RowInv, pc = "source", source.kind \in {"multi_field_agg", "hash_agg"},
         AggTakeRest
  PROVE  RowInv'
<1>1. idx \in Nat /\ input \in Inputs /\ is_final_chunk = FALSE /\ ~NoRows
  BY DEF FlowInv, PlaceInv, LoopInv, NoRows
<1>2. PICK S, result : S = RowsOfSource(source) /\ result = source.result
  OBVIOUS
<1>3. result \in Seq(S) /\ row_nums \in Nat /\ row_nums = Len(result)
  BY <1>1, <1>2, ResultFacts DEF row_nums
<1>4. CASE /\ idx >= row_nums /\ temporary_chunk' = Chunk(<<>>) /\ idx' = idx
           /\ Fetched("FINISHED")
  <2>1. input' = input
    BY <1>4 DEF Fetched
  <2>2. source' = source /\ row_nums' = row_nums /\ Rows = result
    BY <1>2, <2>1, PipelineKept DEF Rows
  <2>3. ~(idx < row_nums)
    BY <1>1, <1>3, <1>4
  <2>4. \A r \in S : Gone(r) = CountTo(r, result, row_nums) /\ Gone(r)' = Gone(r)
                     /\ Gone(r) \in Nat /\ Count(r, <<>>) = 0
    <3>1. \A r \in S : Gone(r) = CountTo(r, result, row_nums) /\ Gone(r) \in Nat
      BY <1>2, <2>3, GoneIs
    <3>2. \A r \in S : Gone(r)' = CountTo(r, result, row_nums)
      BY <1>2, <1>4, <2>2, <2>3 DEF Gone, CountTo
    <3> QED BY <3>1, <3>2, CountEmpty
  <2>5. \A r \in S : Gone(r)' = Gone(r) + Count(r, <<>>)
    BY <2>4
  <2>6. \A r \in S : Gone(r)' = Count(r, Rows)
    BY <1>3, <2>2, <2>4, CountIsTo
  <2>7. <<>> \in Seq(S) /\ SourceAt' /\ temporary_chunk'.rows = <<>>
    BY <1>4, <2>2, ChunkRows DEF SourceAt
  <2> QED BY <1>1, <1>2, <1>4, <2>4, <2>5, <2>6, <2>7, FetchKeepsRows
<1>5. CASE /\ idx < row_nums /\ temporary_chunk' = Chunk(Slice(idx, row_nums))
           /\ idx' = row_nums /\ Fetched("HAVE_MORE_OUTPUT")
  <2>1. ~(idx + row_nums < row_nums)
    BY <1>1, <1>3
  <2>2. Slice(idx, row_nums) = SubSeq(source.result, idx + 1, row_nums)
    BY <2>1 DEF Slice, row_nums
  <2> QED BY <1>1, <1>3, <1>5, <2>2, SliceKeepsRows
<1> QED BY <1>4, <1>5 DEF AggTakeRest, row_nums

LEMMA MultiFieldAggKeepsRows ==
  ASSUME FlowInv, RowInv, MultiFieldAggGetData
  PROVE  RowInv'
<1>1. /\ pc = "source" /\ source.kind = "multi_field_agg" /\ idx \in Nat /\ input \in Inputs
      /\ CHUNK_SIZE \in Nat \ {0}
  BY ChunkAssumption DEF MultiFieldAggGetData, FlowInv, PlaceInv
<1>2. row_nums \in Nat
  BY <1>1, ResultFacts
<1>3. CASE AggTakeRest
  BY <1>1, <1>3, TakeRestKeepsRows
<1>4. CASE row_nums - idx >= CHUNK_SIZE - 1 /\ AggTakeFull
  <2>1. idx <= row_nums
    BY <1>1, <1>2, <1>4
  <2>2. /\ idx' = idx + CHUNK_SIZE /\ temporary_chunk' = Chunk(Slice(idx, CHUNK_SIZE))
        /\ Fetched("HAVE_MORE_OUTPUT")
    BY <1>4, <2>1 DEF AggTakeFull, row_nums
  <2>3. PICK b : b = IF idx + CHUNK_SIZE < row_nums THEN idx + CHUNK_SIZE ELSE row_nums
    OBVIOUS
  <2>4. b \in Nat /\ b <= row_nums /\ idx <= b /\ idx' \in Nat
    BY <1>1, <1>2, <2>1, <2>2, <2>3
  <2>5. Slice(idx, CHUNK_SIZE) = SubSeq(source.result, idx + 1, b)
    BY <2>3 DEF Slice, row_nums
  <2> QED BY <1>1, <2>2, <2>3, <2>4, <2>5, SliceKeepsRows
<1> QED BY <1>3, <1>4 DEF MultiFieldAggGetData, row_nums

LEMMA HashAggKeepsRows ==
  ASSUME FlowInv, RowInv, HashAggGetData
  PROVE  RowInv'
BY HashAggTakesRest, TakeRestKeepsRows DEF HashAggGetData

LEMMA WholeChunks ==
  ASSUME NEW c \in Nat \ {0}, NEW n \in Nat, n % c = 0
  PROVE  (n + c) % c = 0 /\ \A d \in 1 .. c - 1 : (n + d) % c # 0
<1>1. PICK q : q = n \div c
  OBVIOUS
<1>2. q \in Int /\ n = q * c
  BY <1>1
<1>3. \A k \in Int, d \in 0 .. c - 1 : (k * c + d) % c = d
  OBVIOUS
<1>4. n + c = (q + 1) * c + 0
  BY <1>2
<1>5. (n + c) % c = 0
  BY <1>2, <1>3, <1>4
<1>6. ASSUME NEW d \in 1 .. c - 1 PROVE (n + d) % c # 0
  <2>1. d \in 0 .. c - 1 /\ d # 0
    OBVIOUS
  <2>2. (n + d) % c = d
    BY <1>2, <1>3, <2>1
  <2> QED BY <2>1, <2>2
<1> QED BY <1>5, <1>6

LEMMA OrderKeepsRows ==
  ASSUME FlowInv, RowInv, OrderGetData
  PROVE  RowInv'
<1>1. /\ pc = "source" /\ source.kind = "order" /\ idx \in Nat /\ input \in Inputs
      /\ is_final_chunk = FALSE /\ CHUNK_SIZE \in Nat \ {0}
  BY ChunkAssumption DEF OrderGetData, FlowInv, PlaceInv, LoopInv
<1>2. PICK S, share : S = RowsOfSource(source) /\ share = Share
  OBVIOUS
<1>3. /\ share \in Seq(S) /\ Rows = share /\ row_nums \in Nat
      /\ source.parallelism \in Nat \ {0} /\ (row_nums = 0 => share = <<>>)
  BY <1>1, <1>2, ShareIsASlice, ResultFacts, OrderFacts DEF Rows
<1>4. /\ input' = input
      /\ source' = source /\ row_nums' = row_nums /\ Share' = share
  <2>1. input' = input
    BY DEF OrderGetData, OrderTakeChunk, Fetched
  <2> QED BY <1>2, <2>1, PipelineKept
<1>5. CASE row_nums = 0 /\ UNCHANGED <<temporary_chunk, idx>> /\ Fetched("FINISHED")
  <2>1. row_nums <= source.parallelism /\ ~(row_nums > source.parallelism) /\ NoRows
    BY <1>1, <1>3, <1>5 DEF NoRows
  <2>2. is_final_chunk'
    BY <1>5 DEF Fetched
  <2>3. ASSUME NEW r \in S
        PROVE  Gone(r)' = Gone(r) + Count(r, <<>>) /\ Gone(r)' = Count(r, Rows) /\ Count(r, <<>>) = 0
    <3>1. Gone(r) = 0
      BY <1>1, <1>2, <2>1, GoneIs
    <3>2. Gone(r)' = Count(r, share)
      BY <1>1, <1>4, <2>1, <2>2 DEF Gone, Count
    <3>3. Count(r, <<>>) = 0
      BY CountEmpty
    <3> QED BY <1>3, <1>5, <3>1, <3>2, <3>3
  <2>4. temporary_chunk' = temporary_chunk /\ temporary_chunk'.rows = <<>>
    BY <1>5, <2>1, ChunkRows DEF RowInv, StageInv
  <2>5. <<>> \in Seq(S) /\ SourceAt'
    BY <1>1, <1>4, <2>1 DEF SourceAt
  <2> QED BY <1>1, <1>2, <1>5, <2>3, <2>4, <2>5, FetchKeepsRows
<1>6. CASE /\ row_nums # 0 /\ row_nums <= source.parallelism
           /\ temporary_chunk' = Chunk(Share) /\ UNCHANGED idx /\ Fetched("FINISHED")
  <2>1. ~(row_nums > source.parallelism) /\ ~NoRows
    BY <1>3, <1>6 DEF NoRows
  <2>2. is_final_chunk' /\ input.sink' = input.sink
    BY <1>4, <1>6 DEF Fetched
  <2>3. ASSUME NEW r \in S
        PROVE  Gone(r)' = Gone(r) + Count(r, share) /\ Gone(r)' = Count(r, Rows)
    <3>1. Gone(r) = 0
      BY <1>1, <1>2, <1>6, <2>1, GoneIs
    <3>2. Gone(r)' = Count(r, share)
      BY <1>1, <1>4, <1>6, <2>1, <2>2 DEF Gone, Count
    <3>3. Count(r, share) \in Nat
      BY <1>3, CountIsTo
    <3> QED BY <1>3, <3>1, <3>2, <3>3
  <2>4. temporary_chunk' = Chunk(share) /\ temporary_chunk'.rows = share
    BY <1>2, <1>6, ChunkRows
  <2>5. SourceAt'
    BY <1>1, <1>4, <1>6, <2>1 DEF SourceAt
  <2>6. ~(EndsWell /\ Refused')
    BY <1>1, <1>4, <2>1, <2>2 DEF EndsWell, Refused
  <2> QED BY <1>1, <1>2, <1>3, <1>6, <2>1, <2>3, <2>4, <2>5, <2>6, FetchKeepsRows
<1>7. CASE row_nums > source.parallelism /\ OrderTakeChunk
  <2>1. ~(row_nums <= source.parallelism) /\ ~NoRows
    BY <1>3, <1>7 DEF NoRows
  <2>2. PICK w \in Nat : w = row_per_pipeline /\ w = Len(share) /\ idx <= w
    BY <1>1, <1>2, <1>7, ShareFacts, ShareIsASlice DEF FlowInv, PlaceInv
  <2>3. idx % CHUNK_SIZE = 0
    BY <1>1, <1>7 DEF RowInv, GoneInv, SourceAt
  <2>4. \A r \in S : Gone(r) = CountTo(r, share, idx) /\ Gone(r) \in Nat
    BY <1>1, <1>2, <1>7, GoneIs
  <2>5. \A r \in S : Gone(r)' = CountTo(r, share, idx')
    BY <1>1, <1>4, <1>7, <2>1 DEF Gone, CountTo
  <2>6. \A r \in S : Count(r, Rows) = CountTo(r, share, w)
    BY <1>3, <2>2, CountIsTo
  <2>7. EndsWell => (input.sink \in KeepsFinal <=> w % CHUNK_SIZE # 0)
    BY <1>1, <2>1, <2>2 DEF EndsWell
  <2>8. is_final_chunk' \/ idx' % CHUNK_SIZE = 0 => SourceAt'
    BY <1>1, <1>4 DEF SourceAt
  <2>9. CASE /\ w - idx >= CHUNK_SIZE
             /\ temporary_chunk' = Chunk(SubSeq(share, idx + 1, idx + CHUNK_SIZE))
             /\ idx' = idx + CHUNK_SIZE /\ Fetched("HAVE_MORE_OUTPUT")
    <3>0. PICK b \in Nat : b = idx + CHUNK_SIZE /\ idx <= b /\ b <= w
      BY <1>1, <2>2, <2>9
    <3>1. PICK rows : b = idx + CHUNK_SIZE /\ rows = SubSeq(share, idx + 1, b)
      BY <3>0
    <3>2. rows \in Seq(S) /\ \A r : CountTo(r, share, b) = CountTo(r, share, idx) + Count(r, rows)
      BY <1>1, <1>3, <2>2, <3>0, <3>1, CountSubSeq
    <3>3. SourceAt'
      BY <1>1, <2>3, <2>8, <2>9, WholeChunks
    <3>4. ~Refused' /\ temporary_chunk' = Chunk(rows) /\ temporary_chunk'.rows = rows
      BY <1>1, <2>9, <3>1, ChunkRows DEF Fetched, Refused
    <3>5. \A r \in S : Gone(r)' = Gone(r) + Count(r, rows)
      BY <2>4, <2>5, <2>9, <3>1, <3>2
    <3> QED BY <1>1, <1>2, <2>1, <2>9, <3>2, <3>3, <3>4, <3>5, FetchKeepsRows
  <2>10. CASE /\ 0 < w - idx /\ w - idx < CHUNK_SIZE
              /\ temporary_chunk' = Chunk(SubSeq(share, idx + 1, w))
              /\ idx' = w /\ Fetched("FINISHED")
    <3>1. PICK rows : rows = SubSeq(share, idx + 1, w)
      OBVIOUS
    <3>2. rows \in Seq(S) /\ \A r : CountTo(r, share, w) = CountTo(r, share, idx) + Count(r, rows)
      BY <1>1, <1>3, <2>2, <3>1, CountSubSeq
    <3>3. is_final_chunk' /\ SourceAt'
      BY <2>8, <2>10 DEF Fetched
    <3>4. temporary_chunk' = Chunk(rows) /\ temporary_chunk'.rows = rows
      BY <2>10, <3>1, ChunkRows
    <3>5. \A r \in S : Gone(r)' = Gone(r) + Count(r, rows) /\ Gone(r)' = Count(r, Rows)
      BY <2>4, <2>5, <2>6, <2>10, <3>2
    <3>6. w % CHUNK_SIZE # 0
      <4>1. PICK d \in 1 .. CHUNK_SIZE - 1 : w = idx + d
        <5>1. w - idx \in 1 .. CHUNK_SIZE - 1 /\ w = idx + (w - idx)
          BY <1>1, <2>2, <2>10
        <5> QED BY <5>1
      <4> QED BY <1>1, <2>3, <4>1, WholeChunks
    <3>7. ~(EndsWell /\ Refused')
      BY <1>4, <2>7, <3>6 DEF Refused
    <3> QED BY <1>1, <1>2, <2>1, <2>10, <3>2, <3>3, <3>4, <3>5, <3>7, FetchKeepsRows
  <2>11. CASE w - idx = 0 /\ UNCHANGED <<temporary_chunk, idx>> /\ Fetched("FINISHED")
    <3>1. idx = w
      BY <1>1, <2>2, <2>11
    <3>2. \A r \in S : Gone(r)' = Gone(r) + Count(r, <<>>) /\ Gone(r)' = Count(r, Rows)
                       /\ Count(r, <<>>) = 0
      BY <2>4, <2>5, <2>6, <2>11, <3>1, CountEmpty
    <3>0. <<>> \in Seq(S)
      OBVIOUS
    <3>3. is_final_chunk' /\ SourceAt'
      BY <2>8, <2>11 DEF Fetched
    <3>4. EndsWell => Refused'
      BY <1>4, <2>3, <2>7, <3>1, <3>3 DEF Refused
    <3> QED BY <1>1, <1>2, <2>1, <2>11, <3>0, <3>2, <3>3, <3>4, FetchKeepsRows
  <2> QED BY <1>2, <1>7, <2>2, <2>9, <2>10, <2>11 DEF OrderTakeChunk
<1> QED BY <1>5, <1>6, <1>7 DEF OrderGetData

LEMMA OperatorKeepsRows ==
  ASSUME FlowInv, RowInv, ExecuteOperator
  PROVE  RowInv'
<1>1. /\ pc = "operators" /\ UNCHANGED <<input, idx, is_final_chunk, sunk, finals>>
      /\ input \in Inputs
  BY DEF ExecuteOperator, FlowInv
<1>2. PICK S, rows, k, op :
        /\ S = RowsOfSource(source) /\ rows = temporary_chunk.rows
        /\ k = operator_idx + 1 /\ op = operators[k]
  OBVIOUS
<1>3. PICK n \in Nat : n = Len(operators)
  BY <1>1, OperatorFacts
<1>4. operator_idx \in 0 .. n - 1 /\ k \in 1 .. n /\ k - 1 = operator_idx
  BY <1>1, <1>2, <1>3 DEF RowInv, StageInv
<1>5. rows \in Seq(S) /\ \A r \in S : Copies(op, r) \in Nat
  BY <1>1, <1>2, <1>3, <1>4, ChunkTyped, OperatorFacts DEF RowInv
<1>6. /\ source' = source /\ operators' = operators /\ Rows' = Rows /\ EndsWell' = EndsWell
      /\ NoRows' = NoRows /\ (\A r : Factors(r)' = Factors(r))
      /\ RowsOfSource(source)' = S /\ row_nums' = row_nums /\ Share' = Share
  BY <1>1, <1>2, PipelineKept, InputKept
<1>7. \A r : Gone(r)' = Gone(r)
  BY <1>1, <1>6 DEF Gone, Count, CountTo, FlatTo
<1>8. GoneInv'
  <2>1. SourceAt'
    BY <1>1, <1>6 DEF RowInv, GoneInv, SourceAt
  <2>2. is_final_chunk' => \A r \in S : Gone(r)' = Count(r, Rows)
    BY <1>1, <1>2, <1>7 DEF RowInv, GoneInv
  <2> QED BY <1>6, <2>1, <2>2 DEF GoneInv, Count
<1>9. CASE pc' = "crashed" /\ UNCHANGED <<temporary_chunk, operator_idx, operator_result>>
  <2>1. StageInv'
    BY <1>1, <1>2, <1>6, <1>9 DEF RowInv, StageInv
  <2> QED BY <1>8, <1>9, <2>1 DEF RowInv, Balance
<1>10. CASE /\ operator_result' = Answer(op, rows)
            /\ temporary_chunk' = IF temporary_chunk = NoChunk THEN NoChunk
                                  ELSE Chunk(Through(op, rows))
            /\ operator_idx' = operator_idx - 1
            /\ pc' = IF operator_result' = "NO_MORE_OUTPUT" \/ operator_idx = 0
                     THEN "sink" ELSE "operators"
  <2>1. PICK more : more = temporary_chunk'.rows
    OBVIOUS
  <2>2. /\ more \in Seq(S)
        /\ temporary_chunk' = Chunk(more) \/ (temporary_chunk' = NoChunk /\ more = <<>>)
        /\ \A r \in S : Count(r, more) = Count(r, rows) * Copies(op, r)
        /\ operator_result' = "NO_MORE_OUTPUT" => more = <<>>
    <3>1. CASE temporary_chunk = NoChunk
      <4>1. rows = <<>> /\ more = <<>> /\ temporary_chunk' = NoChunk
        BY <1>2, <1>10, <2>1, <3>1, ChunkRows
      <4>2. \A r \in S : Count(r, <<>>) = 0 * Copies(op, r) /\ Count(r, <<>>) = 0
        BY <1>5, CountEmpty
      <4>3. operator_result' = "FINISHED"
        BY <1>10, <4>1 DEF Answer
      <4>4. <<>> \in Seq(S)
        OBVIOUS
      <4> QED BY <4>1, <4>2, <4>3, <4>4
    <3>2. CASE temporary_chunk # NoChunk
      <4>1. more = Through(op, rows) /\ temporary_chunk' = Chunk(more)
        BY <1>10, <2>1, <3>2, ChunkRows
      <4>2. /\ Through(op, rows) \in Seq(S)
            /\ \A r \in S : Count(r, Through(op, rows)) = Count(r, rows) * Copies(op, r)
        BY <1>5, ThroughCopies
      <4>3. operator_result' = "NO_MORE_OUTPUT" => Through(op, rows) = <<>>
        BY <1>10 DEF Answer
      <4> QED BY <4>1, <4>2, <4>3
    <3> QED BY <3>1, <3>2
  <2>3. StageInv'
    <3>1. sunk' \in Seq(S) /\ is_final_chunk' \in BOOLEAN
      BY <1>1, <1>2 DEF RowInv, StageInv
    <3>2. NoRows' => temporary_chunk' = NoChunk
      BY <1>6, <1>10 DEF RowInv, StageInv
    <3>3. operators' # <<>>
      BY <1>3, <1>4, <1>6
    <3>4. pc' = "operators" => operator_idx' \in 0 .. Len(operators') - 1
      BY <1>3, <1>4, <1>6, <1>10
    <3>5. pc' = "sink" => /\ operator_idx' \in -1 .. Len(operators') - 1
                          /\ operator_idx' = -1 \/ temporary_chunk'.rows = <<>>
                          /\ operator_result' = "NO_MORE_OUTPUT" => temporary_chunk'.rows = <<>>
      BY <1>3, <1>4, <1>6, <1>10, <2>1, <2>2
    <3>6. \E x \in Seq(S) : temporary_chunk' = Chunk(x) \/ (temporary_chunk' = NoChunk /\ x = <<>>)
      BY <2>2
    <3> QED BY <1>6, <3>1, <3>2, <3>3, <3>4, <3>5, <3>6 DEF StageInv
  <2>4. ASSUME EndsWell, NEW r \in S PROVE Balance(r)'
    <3>1. PICK f : f = Factors(r)
      OBVIOUS
    <3>2. f \in [0 .. n -> Nat] /\ f[k] = f[k - 1] * Copies(op, r)
      BY <1>1, <1>2, <1>3, <1>4, <3>1, FactorsFacts
    <3>3. Count(r, sunk) + Held(r) = Gone(r) * f[n]
      BY <1>1, <1>2, <1>3, <2>4, <3>1 DEF RowInv, Balance
    <3>4. Held(r)' = Held(r)
      <4>0. Refused' = Refused
        BY <1>1 DEF Refused
      <4>1. CASE Refused
        BY <4>0, <4>1 DEF Held
      <4>2. CASE ~Refused
        <5>1. Held(r) = Count(r, rows) * f[k]
          BY <1>2, <3>1, <4>2 DEF Held
        <5>2. operator_idx' + 1 = k - 1
          BY <1>4, <1>10
        <5>3. Held(r)' = Count(r, more) * f[k - 1]
          <6>1. Held(r)' = Count(r, temporary_chunk'.rows) * Factors(r)'[operator_idx' + 1]
            BY <4>0, <4>2 DEF Held, Count
          <6> QED BY <1>6, <2>1, <3>1, <5>2, <6>1
        <5>4. PICK c \in Nat, g \in Nat, m \in Nat :
                c = Copies(op, r) /\ g = f[k - 1] /\ m = Count(r, rows)
          <6>1. Copies(op, r) \in Nat
            BY <1>5
          <6>2. f[k - 1] \in Nat
            BY <1>4, <3>2
          <6>3. Count(r, rows) \in Nat
            BY <1>5, CountIsTo
          <6> QED BY <6>1, <6>2, <6>3
        <5>5. f[k] = g * c /\ Count(r, more) = m * c
          BY <2>2, <3>2, <5>4
        <5>6. (m * c) * g = m * (g * c)
          OBVIOUS
        <5> QED BY <5>1, <5>3, <5>4, <5>5, <5>6
      <4> QED BY <4>1, <4>2
    <3>5. Count(r, sunk)' = Count(r, sunk) /\ pc' \in {"operators", "sink"}
      BY <1>1, <1>10 DEF Count
    <3>6. Factors(r)'[Len(operators)'] = f[n]
      BY <1>3, <1>6, <3>1
    <3> QED BY <1>7, <3>3, <3>4, <3>5, <3>6 DEF Balance
  <2>5. pc' # "done"
    BY <1>10
  <2> QED BY <1>6, <1>8, <2>3, <2>4, <2>5 DEF RowInv
<1> QED BY <1>2, <1>9, <1>10 DEF ExecuteOperator

LEMMA SinkKeepsRows ==
  ASSUME FlowInv, RowInv, SkipSink \/ SinkChunk \/ SinkNull
  PROVE  RowInv'
<1>1. /\ pc = "sink" /\ UNCHANGED <<input, idx, temporary_chunk, is_final_chunk, operator_result>>
      /\ input \in Inputs /\ pc' \in {"source", "done", "crashed"}
      /\ pc' = "done" => is_final_chunk
  BY DEF SkipSink, SinkChunk, SinkNull, FlowInv
<1>2. PICK S, rows : S = RowsOfSource(source) /\ rows = temporary_chunk.rows
  OBVIOUS
<1>3. rows \in Seq(S) /\ sunk \in Seq(S)
  BY <1>2, ChunkTyped DEF RowInv, StageInv
<1>4. sunk' \in Seq(S)
  <2>1. sunk' = sunk \/ sunk' = sunk \o rows
    BY <1>2 DEF SkipSink, SinkChunk, SinkNull
  <2> QED BY <1>3, <2>1, ConcatProperties
<1>5. /\ source' = source /\ operators' = operators /\ Rows' = Rows /\ EndsWell' = EndsWell
      /\ NoRows' = NoRows /\ (\A r : Factors(r)' = Factors(r))
      /\ RowsOfSource(source)' = S /\ row_nums' = row_nums /\ Share' = Share
  BY <1>1, <1>2, PipelineKept, InputKept
<1>6. \A r : Gone(r)' = Gone(r)
  BY <1>1, <1>5 DEF Gone, Count, CountTo, FlatTo
<1>7. GoneInv'
  <2>1. SourceAt'
    BY <1>1, <1>5 DEF RowInv, GoneInv, SourceAt
  <2>2. is_final_chunk' => \A r \in S : Gone(r)' = Count(r, Rows)
    BY <1>1, <1>2, <1>6 DEF RowInv, GoneInv
  <2> QED BY <1>5, <2>1, <2>2 DEF GoneInv, Count
<1>8. StageInv'
  <2>1. pc' # "operators" /\ pc' # "sink"
    BY <1>1
  <2> QED BY <1>1, <1>2, <1>4, <1>5, <2>1 DEF RowInv, StageInv
<1>9. ASSUME EndsWell, NEW r \in S, ~SinkNull PROVE Balance(r)'
  <2>0. PICK n \in Nat : n = Len(operators)
    BY <1>1, OperatorFacts
  <2>1. PICK f : n = Len(operators) /\ f = Factors(r)
    BY <2>0
  <2>2. Count(r, sunk) + Held(r) = Gone(r) * f[n]
    BY <1>1, <1>2, <1>9, <2>1 DEF RowInv, Balance
  <2>3. f \in [0 .. n -> Nat] /\ f[0] = 1
    BY <1>1, <1>2, <2>1, FactorsFacts
  <2>4. Count(r, rows) \in Nat /\ Count(r, sunk) \in Nat
    BY <1>3, CountIsTo
  <2>5. operator_idx \in -1 .. n - 1 /\ (operator_idx = -1 \/ rows = <<>>)
    BY <1>1, <1>2, <2>1 DEF RowInv, StageInv
  <2>6. Held(r) = IF Refused THEN 0 ELSE Count(r, rows)
    <3>1. PICK k : k = operator_idx + 1
      OBVIOUS
    <3>2. Held(r) = IF Refused THEN 0 ELSE Count(r, rows) * f[k]
      BY <1>2, <2>1, <3>1 DEF Held
    <3>3. k \in 0 .. n /\ (k = 0 \/ rows = <<>>)
      BY <2>5, <3>1
    <3>4. f[k] \in Nat /\ (k = 0 => f[k] = 1)
      BY <2>3, <3>3
    <3>5. Count(r, rows) * f[k] = Count(r, rows)
      <4>1. CASE k = 0
        BY <2>4, <3>4, <4>1
      <4>2. CASE rows = <<>>
        <5>1. Count(r, rows) = 0
          BY <4>2, CountEmpty
        <5> QED BY <3>4, <5>1
      <4> QED BY <3>3, <4>1, <4>2
    <3> QED BY <3>2, <3>5
  <2>7. Count(r, sunk') = Gone(r) * f[n]
    <3>1. CASE SkipSink
      <4>1. sunk' = sunk /\ rows = <<>> /\ ~Refused
        BY <1>1, <1>2, <3>1 DEF SkipSink, Skip, Refused, RowInv, StageInv
      <4>2. Held(r) = 0
        BY <2>6, <4>1, CountEmpty
      <4> QED BY <2>2, <2>4, <4>1, <4>2
    <3>2. CASE SinkChunk
      <4>1. sunk' = IF Refused THEN sunk ELSE sunk \o rows
        BY <1>2, <3>2 DEF SinkChunk, Refused
      <4>2. Count(r, sunk \o rows) = Count(r, sunk) + Count(r, rows)
        BY <1>3, CountConcat
      <4>3. Count(r, sunk') = Count(r, sunk) + Held(r)
        BY <2>4, <2>6, <4>1, <4>2
      <4> QED BY <2>2, <4>3
    <3> QED BY <1>9, <3>1, <3>2
  <2>8. Factors(r)'[Len(operators)'] = f[n] /\ Count(r, sunk)' = Count(r, sunk')
    BY <1>5, <2>1 DEF Count
  <2> QED BY <1>1, <1>6, <2>7, <2>8 DEF Balance
<1>10. ASSUME NEW r, SinkNull PROVE Balance(r)'
  BY <1>10 DEF SinkNull, Balance
<1> QED BY <1>1, <1>5, <1>7, <1>8, <1>9, <1>10 DEF RowInv

-----------------------------------------------------------------------------
LEMMA RowInvInitially == Init /\ FlowInv => RowInv
<1> SUFFICES ASSUME Init, FlowInv PROVE RowInv
  OBVIOUS
<1>1. /\ input \in Inputs /\ pc = "source" /\ idx = 0 /\ temporary_chunk = NoChunk
      /\ is_final_chunk = FALSE /\ operator_result = "FINISHED" /\ sunk = <<>>
  BY DEF Init
<1>2. PICK S : S = RowsOfSource(source)
  OBVIOUS
<1>3. <<>> \in Seq(S)
  OBVIOUS
<1>4. StageInv
  BY <1>1, <1>2, <1>3 DEF StageInv
<1>5. SourceAt
  <2>1. source.kind = "table_scan" => Len(source.chunks) \in Nat
    BY <1>1, ScanFacts
  <2>2. 0 % CHUNK_SIZE = 0
    BY ChunkAssumption
  <2> QED BY <1>1, <2>1, <2>2 DEF SourceAt
<1>6. GoneInv
  BY <1>1, <1>5 DEF GoneInv
<1>7. ASSUME NEW r \in S PROVE Balance(r)
  <2>1. Gone(r) = 0
    <3>1. source.kind \in {"table_scan", "multi_field_agg", "hash_agg", "order"}
      BY <1>1, InputAssumption DEF source
    <3>2. \A s : CountTo(r, s, 0) = 0
      BY CountToStep
    <3>3. source.kind = "table_scan" => FlatTo(source.chunks)[0] = <<>>
      <4>1. source.kind = "table_scan" => source.chunks \in Seq(Seq(S))
        BY <1>1, <1>2, ScanFacts
      <4> QED BY <4>1, FlatToFacts
    <3>4. source.kind # "table_scan" =>
            row_nums \in Nat /\ (IF 0 < row_nums THEN 0 ELSE row_nums) = 0
      BY <1>1, ResultFacts
    <3>5. source.kind = "order" =>
            (row_nums > source.parallelism <=> ~(row_nums <= source.parallelism))
      BY <1>1, ResultFacts, OrderFacts
    <3>6. Count(r, <<>>) = 0
      BY CountEmpty
    <3> QED BY <1>1, <3>1, <3>2, <3>3, <3>4, <3>5, <3>6 DEF Gone
  <2>2. Factors(r)[Len(operators)] \in Nat
    BY <1>1, <1>2, FactorsFacts, OperatorFacts
  <2>3. Count(r, sunk) = 0
    BY <1>1, CountEmpty
  <2> QED BY <1>1, <2>1, <2>2, <2>3 DEF Balance
<1> QED BY <1>1, <1>2, <1>4, <1>6, <1>7 DEF RowInv

LEMMA RowInvKept == FlowInv /\ RowInv /\ [Next]_vars => RowInv'
<1> SUFFICES ASSUME FlowInv, RowInv, [Next]_vars PROVE RowInv'
  OBVIOUS
<1>1. CASE UNCHANGED vars
  <2>1. UNCHANGED <<input, pc, idx, temporary_chunk, is_final_chunk, operator_idx,
                    operator_result, sunk>>
    BY <1>1 DEF vars
  <2>2. /\ source' = source /\ operators' = operators /\ Rows' = Rows /\ EndsWell' = EndsWell
        /\ NoRows' = NoRows /\ (\A r : Factors(r)' = Factors(r))
        /\ RowsOfSource(source)' = RowsOfSource(source) /\ row_nums' = row_nums
        /\ Share' = Share
    BY <2>1, PipelineKept, InputKept
  <2>3. \A r : Gone(r)' = Gone(r)
    BY <2>1, <2>2 DEF Gone, Count, CountTo, FlatTo
  <2>4. \A r : Held(r)' = Held(r)
    BY <2>1, <2>2 DEF Held, Refused, Count
  <2>5. \A r : Balance(r)' = Balance(r)
    BY <2>1, <2>2, <2>3, <2>4 DEF Balance, Count
  <2>6. StageInv'
    BY <2>1, <2>2 DEF RowInv, StageInv
  <2>7. GoneInv'
    BY <2>1, <2>2, <2>3 DEF RowInv, GoneInv, SourceAt, Count
  <2> QED BY <2>1, <2>2, <2>5, <2>6, <2>7 DEF RowInv
<1> QED
  BY <1>1, ScanKeepsRows, MultiFieldAggKeepsRows, HashAggKeepsRows, OrderKeepsRows,
     OperatorKeepsRows, SinkKeepsRows DEF Next

\* The rows that have left the source are in the sink or on their way to it.
THEOREM RowInvHolds == Spec => []RowInv
<1> QED BY FlowInvHolds, FlowInvInitially, RowInvInitially, RowInvKept, PTL DEF Spec

(***************************************************************************)
(* When execute_pipeline ends, the sink holds every row of the source      *)
(* exactly as often as the filters and joins let it through, for every     *)
(* table, result, list of operators, chunk size and share of an ORDER BY   *)
(* whose last chunk suits its sink.                                        *)
(***************************************************************************)
THEOREM EveryRowIsSunk == Spec => []EveryRowSunk
<1>1. FlowInv /\ RowInv => EveryRowSunk
  <2> SUFFICES ASSUME FlowInv, RowInv, pc = "done", EndsWell,
                      NEW r \in Range(Rows) \cup Range(sunk)
               PROVE  Count(r, sunk) = Expected(r)
    BY DEF EveryRowSunk
  <2>1. PICK S : S = RowsOfSource(source)
    OBVIOUS
  <2>2. Rows \in Seq(S) /\ sunk \in Seq(S)
    BY <2>1, RowsTyped DEF FlowInv, RowInv, StageInv
  <2>3. r \in S
    BY <2>2 DEF Range
  <2>4. Balance(r) /\ Gone(r) = Count(r, Rows)
    BY <2>1, <2>3 DEF RowInv, GoneInv
  <2> QED BY <2>4 DEF Balance, Expected
<1> QED BY <1>1, FlowInvHolds, RowInvHolds, PTL
=============================================================================
