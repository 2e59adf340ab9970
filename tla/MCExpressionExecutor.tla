------------------------ MODULE MCExpressionExecutor ------------------------
(***************************************************************************)
(* Queries for ExpressionExecutor: every kernel on every pair of types, the *)
(* LIKE patterns, conjunctions two and three deep, and the projections,    *)
(* over chunks of one, two and three of six rows.                           *)
(***************************************************************************)
EXTENDS ExpressionExecutor

MCColumnType ==
  [id |-> "INT32", n |-> "INT32", f |-> "FLOAT", d |-> "DOUBLE", s |-> "STRING"]

\* 1.1 as a float lies above 1.1, 0.7 below; 0.69 - 0.68 is below 0.01 in
\* doubles, 0.71 - 0.7 is not.
MCFloatAbove == {68, 110}
MCFloatBelow == {70, 71}
MCStepBelow == {68, -69}

Row(id, n, f, d, s) == [id |-> id, n |-> n, f |-> f, d |-> d, s |-> s]
MCRows == << Row(1, 1,    1000, 1104, <<1, 2>>),
             Row(2, 2,    1101, 1098, <<1, 2, 1>>),
             Row(3, NULL, 700,  NULL, NULL),
             Row(4, -1,   700,  704,  <<2, 1, 2>>),
             Row(5, 0,    684,  690,  <<1, 1>>),
             Row(6, 1,    712,  704,  <<2>>) >>
MCChunks == { << <<MCRows[1], MCRows[2], MCRows[3]>>, <<MCRows[4]>> >>,
              << <<MCRows[4], MCRows[2]>>, <<MCRows[1], MCRows[4]>> >>,
              << <<MCRows[2]>>, <<MCRows[4], MCRows[1]>> >>,
              << <<MCRows[1], MCRows[6]>>, <<MCRows[5]>> >> }

Col(c) == [class |-> "COLUMN_REF", column |-> c]
Const(type, value) == [class |-> "CONSTANT", type |-> type, value |-> value]
Cmp(type, left, right) ==
  [class |-> "COMPARISON", type |-> type, left |-> left, right |-> right]
LikeE(pattern, invert) ==
  [class |-> "FUNCTION", left |-> Col("s"), pattern |-> pattern, invert |-> invert]
In(c, values) == [class |-> "IN", left |-> Col(c), value_set |-> values]
And(e, f) == [class |-> "AND", left |-> e, right |-> f]
Or(e, f) == [class |-> "OR", left |-> e, right |-> f]
Fun(op, e, f) == [class |-> "PROJECT_FUNCTION", op |-> op, left |-> e, right |-> f]
Prompt(e) == [class |-> "PROJECT_FUNCTION", op |-> "llm", prompt |-> <<8>>, left |-> e]
Case(when, then, else) ==
  [class |-> "CASE", when |-> when, then |-> then, else |-> else]

Comparisons == {"COMPARE_EQUAL", "COMPARE_NOTEQUAL", "COMPARE_LESSTHAN",
                "COMPARE_GREATERTHAN", "COMPARE_LESSTHANOREQUALTO",
                "COMPARE_GREATERTHANOREQUALTO"}
Single ==
  {Cmp(t, Col(c), Col(e)) : t \in Comparisons, c \in {"n", "f", "d"}, e \in {"n", "f", "d"}}
    \cup {Cmp(t, Col("s"), Const("STRING", <<1, 2>>)) : t \in Comparisons}
    \cup {LikeE(p, inv) : p \in { <<1, 2>>, <<1, Percent>>, <<Percent, 2>>,
                                  <<Percent, 2, Percent>>, <<1, Percent, 1>>,
                                  <<Percent, 1, 2, Percent, 1, Percent>>,
                                  <<1, 2, Percent, 2, 1>>, <<Percent, 1, 2, Percent, 2, Percent>> },
                          inv \in BOOLEAN}
    \cup {In("n", {1, 2}), In("s", {<<1, 2>>})}
Leaf == {Cmp("COMPARE_GREATERTHAN", Col("n"), Const("INT32", 0)),
         Cmp("COMPARE_NOTEQUAL", Col("id"), Const("INT32", 1)),
         Cmp("COMPARE_LESSTHANOREQUALTO", Col("d"), Const("FLOAT", 1100)),
         LikeE(<<1, Percent>>, FALSE),
         In("n", {-1, 2})}
Conjunctions ==
  UNION {{And(e, f), Or(e, f), And(And(e, f), g), Or(And(e, f), g),
          And(Or(e, f), g), And(g, Or(e, f))} : e \in Leaf, f \in Leaf, g \in Leaf}

PlainProjects == {Col("n"), Fun("*", Col("f"), Fun("-", Col("f"), Col("n"))),
                  Fun("/", Fun("+", Col("f"), Col("f")), Col("f")), Fun("+", Col("d"), Col("d")), Prompt(Col("s"))}
CaseProjects ==
  {Case(Cmp("COMPARE_GREATERTHAN", Col("n"), Const("INT32", 0)), Col("f"),
        Fun("*", Col("f"), Col("f"))),
   Case(Cmp("COMPARE_EQUAL", Col("n"), Const("INT32", 2)), Col("n"), Const("FLOAT", 0)),
   Case(And(Cmp("COMPARE_LESSTHAN", Col("f"), Const("FLOAT", 1100)), LikeE(<<1, Percent>>, FALSE)),
        Col("s"), Const("STRING", <<7>>))}

MCInputs ==
  [filter : Single \cup Conjunctions, project : {Col("n")}, chunks : MCChunks]
    \cup [filter : Leaf, project : PlainProjects \cup CaseProjects, chunks : MCChunks]

\* What the SQL front end makes of WHERE a AND (b OR c).
SqlLeaf == {e \in Leaf : e.class = "COMPARISON"}
MCSqlInputs ==
  [filter  : UNION {{And(g, Or(e, f)) : e \in SqlLeaf, f \in SqlLeaf} : g \in SqlLeaf},
   project : {Col("n")},
   chunks  : MCChunks]
=============================================================================
