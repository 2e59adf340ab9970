-------------------------- MODULE MCPipelineBuild ---------------------------
(* PipelineBuild on all small plans. *)
EXTENDS PipelineBuild

CONSTANT MaxPartitions

Leaf == [p \in {<<>>} |-> "table_scan"]

Under(i, t) == {<<i>> \o p : p \in DOMAIN t}

Unary(kind, t) ==
  [p \in {<<>>} \cup Under(1, t) |-> IF p = <<>> THEN kind ELSE t[Tail(p)]]

Binary(kind, b, t) ==
  [p \in {<<>>} \cup Under(1, b) \cup Under(2, t) |->
     IF p = <<>> THEN kind ELSE IF p[1] = 1 THEN b[Tail(p)] ELSE t[Tail(p)]]

UnaryKinds == {"operator", "group_by", "order_by"}

Over(build, probe) ==
  {Unary(k, t) : k \in UnaryKinds, t \in probe}
  \cup {Binary(k, b, t) : k \in JoinKinds, b \in build, t \in probe}

\* Chains of up to three joins on the probe side, of two on the build side.
Trees1 == Over({Leaf}, {Leaf}) \cup {Leaf}
Trees2 == Over(Trees1, Trees1)
Trees3 == Over({Leaf, Unary("group_by", Leaf), Binary("hash_join", Leaf, Leaf)},
               Trees2)

\* The root of a plan is the result collector or ORDER BY.
Rooted(T) == {Unary(k, t) : k \in {"result_collector", "order_by"}, t \in T}

ScansOf(t) == {p \in DOMAIN t : t[p] = "table_scan"}

AllInputs ==
  UNION {[plan : {t}, partitions : [ScansOf(t) -> 0 .. MaxPartitions]] :
           t \in Rooted(Trees1 \cup Trees2)}
  \cup {[plan |-> t, partitions |-> [p \in ScansOf(t) |-> n]] :
          t \in Rooted(Trees3), n \in 1 .. MaxPartitions}
=============================================================================
