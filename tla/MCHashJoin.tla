----------------------------- MODULE MCHashJoin -----------------------------
(* HashJoin on all small build and probe inputs. *)
EXTENDS HashJoin, TLC

CONSTANT BuildRowsPerTable

JoinTypes == {"INNER", "SEMI", "ANTI"}

RowsOf(p, keys) == [n \in DOMAIN keys |-> [id |-> <<p, n>>, key |-> keys[n]]]

KeySeqs(K) == UNION {[1 .. n -> K] : n \in 0 .. BuildRowsPerTable}

\* The rows of a table come in one chunk, which may be empty, or each in one.
Tables(K) == [Pipelines -> KeySeqs(K)]
OneChunkEach(t) == [p \in Pipelines |-> <<RowsOf(p, t[p])>>]
OneRowEach(t) ==
  [p \in Pipelines |-> [n \in DOMAIN t[p] |-> <<RowsOf(p, t[p])[n]>>]]

Joins(types, ops, K, probes) ==
  [join_type : types, is_copy : BOOLEAN, prober : {0}, comparison_types : ops,
   build : {OneChunkEach(t) : t \in Tables(K)}
           \cup {OneRowEach(t) : t \in Tables(K)},
   probe : probes]

\* Two rows in one chunk, or in two with an empty one between them.
Probes(K) == {<< <<k, l>> >> : k, l \in K} \cup {<< <<k>>, <<>>, <<k>> >> : k \in K}

OneColumn == {<<n>> : n \in {0, 1, 3}}
\* The first two have the same hash, the third the same bucket.
TwoColumns == {<<2, 0>>, <<0, 1>>, <<0, 2>>}
Ordered == {<<1, 0>>, <<1, 1>>, <<0, 1>>}

Ops == {<<"EQUAL", op>> : op \in {"EQUAL", "NOTEQUAL", "GREATERTHAN",
                                  "LESSTHANOREQUAL", "GREATERTHANOREQUAL"}}
       \cup {<<"NOTEQUAL", "EQUAL">>}

AllJoins ==
  Joins(JoinTypes, {<<>>}, OneColumn, Probes(OneColumn))
  \cup Joins(JoinTypes, {<<>>}, TwoColumns, Probes(TwoColumns))
  \cup Joins({"SEMI", "ANTI"}, Ops, Ordered, {<< <<k>>, <<k>> >> : k \in Ordered})

=============================================================================
