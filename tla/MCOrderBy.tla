----------------------------- MODULE MCOrderBy ------------------------------
(***************************************************************************)
(* ORDER BY over three pipelines: every choice of up to two rows, one row  *)
(* and up to two rows, with equal keys and null keys among them.           *)
(***************************************************************************)
EXTENDS OrderBy

MCCells == { <<-1, 1>>, <<1, 2>>, <<1, 1>>, <<NULL, 2>> }
Rows(p, n) == {[i \in 1 .. n |-> [id |-> 10 * p + i, cols |-> f[i]]] : f \in [1 .. n -> MCCells]}
UpTo(p, n) == UNION {Rows(p, k) : k \in 0 .. n}

MCInputs ==
  {[orders |-> o,
    chunks |-> << <<a>>, <<b, <<>> >>, [i \in DOMAIN c |-> <<c[i]>>] \o << <<>> >> >>] :
      o \in { <<"ASCENDING">>, <<"DESCENDING", "ASCENDING">> },
      a \in UpTo(1, 2), b \in UpTo(2, 1), c \in UpTo(3, 2)}
=============================================================================
