--------------------------- MODULE ScalarFunctions --------------------------
(***************************************************************************)
(* The functions of src/function: LIKE, the four arithmetic operators and  *)
(* the prompt function.  Cells are those of VectorOperations: thousandths  *)
(* for FLOAT and DOUBLE, sequences of character codes for STRING.          *)
(***************************************************************************)
EXTENDS VectorOperations, FiniteSets

CONSTANTS
  Garbage,      \* what a read through the wrong array type or index gives
  Percent,      \* the code of %
  Underscore    \* the code of _

\* A null cell has a value in the data buffer all the same: zero, or "".
Raw(type, cell) ==
  IF cell # NULL THEN cell ELSE IF type = "STRING" THEN <<>> ELSE 0

-----------------------------------------------------------------------------
(* LIKE. *)

INVALID_INDEX == -1

\* ContainsFun::Find: where needle first occurs.  Its three searches (2, 4 and
\* 8 bytes at once, 3 to 7 bytes in a shifted word, a rolling sum for longer
\* needles) differ in speed only.
Find(haystack, needle) ==
  LET at == {k \in 0 .. Len(haystack) - Len(needle) :
               SubSeq(haystack, k + 1, k + Len(needle)) = needle}
  IN  IF at = {} THEN INVALID_INDEX
                 ELSE CHOOSE k \in at : \A l \in at : k <= l

\* How far finding a middle segment moves str_data.
Pass(haystack, needle) ==
  LET k == Find(haystack, needle)
  IN  IF k = INVALID_INDEX THEN k ELSE k + Len(needle)

\* CreateLikeMatcher: the runs of the pattern between the % signs.  No matcher
\* is made for a pattern with _ or one that is all %.
CreateLikeMatcher(pattern) ==
  LET starts == {i \in DOMAIN pattern :
                   pattern[i] # Percent /\ (i = 1 \/ pattern[i - 1] = Percent)}
      ends   == {i \in DOMAIN pattern :
                   pattern[i] # Percent
                   /\ (i = Len(pattern) \/ pattern[i + 1] = Percent)}
      from   == SetToSortSeq(starts, <)
      to     == SetToSortSeq(ends, <)
  IN  [null     |-> starts = {} \/ \E i \in DOMAIN pattern : pattern[i] = Underscore,
       segments |-> [k \in DOMAIN from |-> SubSeq(pattern, from[k], to[k])],
       has_start_percentage |-> pattern # <<>> /\ Head(pattern) = Percent,
       has_end_percentage   |-> pattern # <<>> /\ Last(pattern) = Percent]

\* The middle segments, each searched for behind the one before: the rest of
\* the string if all are found, nothing if one is not.
Middle(str, segments) ==
  FoldLeft(LAMBDA rest, needle :
             IF rest = <<>> \/ Pass(rest[1], needle) = INVALID_INDEX THEN <<>>
             ELSE <<SubSeq(rest[1], Pass(rest[1], needle) + 1, Len(rest[1]))>>,
           <<str>>, segments)

\* LikeMatcher::Match.
Match(matcher, str) ==
  LET segments == matcher.segments
      n        == Len(segments)
      anchored == ~matcher.has_start_percentage
      starts   == IsPrefix(segments[1], str)
      behind   == IF anchored
                  THEN SubSeq(str, Len(segments[1]) + 1, Len(str)) ELSE str
      rest     == Middle(behind, SubSeq(segments, IF anchored THEN 2 ELSE 1, n - 1))
  IN  CASE anchored /\ ~starts            -> FALSE
        [] anchored /\ starts /\ n = 1    -> matcher.has_end_percentage \/ behind = <<>>
        [] OTHER ->
             /\ rest # <<>>
             /\ IF matcher.has_end_percentage
                THEN Find(rest[1], segments[n]) # INVALID_INDEX
                ELSE IsSuffix(segments[n], rest[1])

\* RegularLikeFunction over UnaryExecutor::Execute: it looks at every cell of
\* its input, null ones as "", and counts by the input's length.
LikeFunction(matcher, invert, column, sel) ==
  LET passes(i) ==
        LET str == Raw("STRING", column.cells[i])
        IN  IF invert THEN ~Match(matcher, str) ELSE Match(matcher, str)
  IN  IF matcher.null \/ \E i \in DOMAIN column.cells : column.cells[i] = Garbage
      THEN Threw
      ELSE Selected(SelectSeq(Positions(Len(column.cells)), passes), sel)

-----------------------------------------------------------------------------
(* Arithmetic. *)

\* BinaryExecutor::Execute casts the arrays by the type of the result: only
\* these pairs are read as what they are.
ReadAsTyped(ltype, rtype) ==
  <<ltype, rtype>> \in {<<"INT32", "INT32">>, <<"FLOAT", "INT32">>,
                        <<"FLOAT", "FLOAT">>, <<"DOUBLE", "DOUBLE">>}

\* The widest type of the pair, as the Regular...Function dispatch has it.
ResultType(ltype, rtype) ==
  IF "DOUBLE" \in {ltype, rtype} THEN "DOUBLE"
  ELSE IF "FLOAT" \in {ltype, rtype} THEN "FLOAT" ELSE "INT32"

\* One cell of a result: integers as they are, the others in thousandths.
Scaled(type, x) == IF type = "INT32" THEN 1000 * x ELSE x
Add(ltype, rtype, x, y) ==
  IF ResultType(ltype, rtype) = "INT32" THEN x + y
  ELSE Scaled(ltype, x) + Scaled(rtype, y)
Sub(ltype, rtype, x, y) ==
  IF ResultType(ltype, rtype) = "INT32" THEN x - y
  ELSE Scaled(ltype, x) - Scaled(rtype, y)
Mul(ltype, rtype, x, y) ==
  IF ResultType(ltype, rtype) = "INT32" THEN x * y
  ELSE (Scaled(ltype, x) * Scaled(rtype, y)) \div 1000
\* C++ division truncates; a divisor of zero is outside the model.
Quotient(x, y) ==
  LET q == (IF x < 0 THEN -x ELSE x) \div (IF y < 0 THEN -y ELSE y)
  IN  IF (x < 0) = (y < 0) THEN q ELSE -q
Div(ltype, rtype, x, y) ==
  IF ResultType(ltype, rtype) = "INT32" THEN Quotient(x, y)
  ELSE Quotient(1000 * Scaled(ltype, x), Scaled(rtype, y))

\* The column a numeric function makes of two columns.
Arithmetic(op, left, right) ==
  LET cell(i) ==
        LET x == Raw(left.type, left.cells[i])
            y == Raw(right.type, right.cells[i])
        IN  IF ~ReadAsTyped(left.type, right.type) \/ Garbage \in {x, y} THEN Garbage
            ELSE CASE op = "+" -> Add(left.type, right.type, x, y)
                   [] op = "-" -> Sub(left.type, right.type, x, y)
                   [] op = "*" -> Mul(left.type, right.type, x, y)
                   [] op = "/" -> Div(left.type, right.type, x, y)
  IN  [type  |-> ResultType(left.type, right.type),
       cells |-> [i \in DOMAIN left.cells |-> cell(i)]]

\* llmfunc::call: the prompt in front of every string.
LLMCall(prompt, column) ==
  [type  |-> "STRING",
   cells |-> [i \in DOMAIN column.cells |-> prompt \o Raw("STRING", column.cells[i])]]
=============================================================================
