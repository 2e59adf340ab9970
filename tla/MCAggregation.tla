--------------------------- MODULE MCAggregation ----------------------------
(***************************************************************************)
(* Aggregations over three pipelines.  The chunks are chosen so that groups *)
(* meet in two pipelines, tables grow in the first phase, in all pipelines *)
(* alike or in one only, a pipeline is empty, and nulls come first or late. *)
(***************************************************************************)
EXTENDS Aggregation

Row(a, b, v) == [key |-> <<a, b>>, val |-> v]
Agg(f) == [f |-> f, star |-> FALSE]
CountStar == [f |-> "COUNT", star |-> TRUE]

MCAggs == { <<Agg("COUNT"), CountStar, Agg("SUM")>>,
            <<Agg("AVG"), Agg("MIN"), Agg("MAX")>> }

\* Hashes 0 to 3: partitions 0 and 2 of three pipelines, with the mask 2.
A == <<Row(0, 0, 5), Row(1, 0, 2)>>
B == <<Row(0, 0, 1), Row(2, 0, -3), Row(0, 0, 4)>>
C == <<Row(2, 0, 7), Row(0, 0, NULL), Row(1, 0, 6)>>
D == <<Row(4, 0, 1), Row(8, 0, 2), Row(5, 0, 3), Row(9, 0, 3)>>   \* makes a table grow
E == <<Row(0, 0, 1), Row(2, 1, 2), Row(4, 2, 3)>>                 \* one hash for all
F == <<Row(0, 0, NULL), Row(1, 0, 8)>>

Lay(a, b, c) == [p \in Pipelines |-> CASE p = 0 -> a [] p = 1 -> b [] p = 2 -> c]
MCChunks == { Lay(<<A>>, <<B>>, <<A>>),
              Lay(<<A>>, <<C>>, <<B>>),
              Lay(<<>>, <<B>>, <<A>>),
              Lay(<<>>, <<>>, <<B, A>>),
              Lay(<<D>>, <<D>>, <<D>>),
              Lay(<<D, A>>, <<A, D>>, <<D>>),
              Lay(<<A, D>>, <<A>>, <<>>),
              Lay(<<D, B>>, <<>>, <<D>>),
              Lay(<<E, A>>, <<B>>, <<E>>),
              Lay(<<F>>, <<A>>, <<>>),
              Lay(<<A>>, <<F>>, <<C>>),
              Lay(<<>>, <<>>, <<>>) }

MCInputs == [op : {MULTI, SINGLE, ALL}, aggs : MCAggs, chunks : MCChunks]
=============================================================================
