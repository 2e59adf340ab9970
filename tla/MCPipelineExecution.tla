------------------------ MODULE MCPipelineExecution -------------------------
(***************************************************************************)
(* A query with a hash join, an aggregation and an ORDER BY: the result    *)
(* collector reads the sorted rows of "order", which reads the groups of   *)
(* "agg", which probes a hash table with a scan; "build" built the table   *)
(* from another scan and "dim" a second one.                               *)
(***************************************************************************)
EXTENDS PipelineExecution, TLC

MCGroups == {"collect", "sort", "agg", "build", "dim"}

MCDeps ==
  "collect" :> <<"sort">> @@ "sort" :> <<"agg">> @@ "agg" :> <<"build", "dim">>
  @@ "build" :> <<>> @@ "dim" :> <<>>

MCPartitions ==
  "collect" :> <<>> @@ "sort" :> <<>> @@ "agg" :> <<0, 1>>
  @@ "build" :> <<1, 2>> @@ "dim" :> <<0, 2>>

MCSink ==
  "collect" :> "plain" @@ "sort" :> "order" @@ "agg" :> "aggregate"
  @@ "build" :> "plain" @@ "dim" :> "plain"
=============================================================================
