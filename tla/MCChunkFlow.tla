---------------------------- MODULE MCChunkFlow ----------------------------
(* ChunkFlow on every small source, list of operators and sink. *)
EXTENDS ChunkFlow

CONSTANTS
  ScanRows,    \* largest table
  ResultRows,  \* largest result of an aggregation or of ORDER BY
  Parallelism  \* pipelines in the group of an ORDER BY source

FirstRows(n) == [i \in 1 .. n |-> i]

\* All ways to cut the table's rows into chunks; insert_data refuses an
\* empty one.
Cuts(n) ==
  {C \in SUBSET (0 .. n) :
     /\ {0, n} \subseteq C
     /\ \A i \in C \ {n} : \E j \in C : i < j /\ j <= i + CHUNK_SIZE}

Chunks(n, C) ==
  LET cut == SetToSortSeq(C, <)
  IN  [i \in 1 .. Len(cut) - 1 |->
         SubSeq(FirstRows(n), cut[i] + 1, cut[i + 1])]

Scans ==
  UNION {{[kind |-> "table_scan", chunks |-> Chunks(n, C)] : C \in Cuts(n)} :
           n \in 0 .. ScanRows}

Aggregates ==
  {[kind |-> "multi_field_agg", result |-> FirstRows(n)] :
     n \in 0 .. ResultRows}
  \cup {[kind |-> "hash_agg", result |-> FirstRows(n)] : n \in 0 .. 1}

Orders ==
  {[kind |-> "order", result |-> FirstRows(n), parallelism |-> Parallelism,
    pipeline_id |-> p] : n \in 0 .. ResultRows, p \in 0 .. Parallelism - 1}

AllRows == 1 .. (IF ScanRows < ResultRows THEN ResultRows ELSE ScanRows)

Filters ==
  {[kind |-> "filter", keep |-> {r \in AllRows : r <= k}] :
     k \in AllRows \cup {0}}
  \cup {[kind |-> "filter", keep |-> {r \in AllRows : r > k}] : k \in AllRows}
Project == [kind |-> "project"]
Join == [kind |-> "join", matches |-> [r \in AllRows |-> r % 3]]

Lists ==
  {<<>>} \cup {<<f>> : f \in Filters \cup {Project, Join}}
  \cup {<<op, f>> : op \in {Project, Join}, f \in Filters}
  \cup {<<f, op>> : op \in {Project, Join}, f \in Filters}

Pipelines(sources, lists) ==
  [source : sources, operators : lists, sink : Sinks]

AllPipelines == Pipelines(Scans \cup Aggregates \cup Orders, Lists)
=============================================================================
