------------------------- MODULE ExpressionExecutor -------------------------
(***************************************************************************)
(* The filter and the projection of one pipeline: ExpressionExecutor,      *)
(* PhysicalFilter and PhysicalProject.  Chunks come from the source one by *)
(* one, the filter narrows each with a selection vector, the projection    *)
(* computes one column of it, and a last empty chunk ends the pipeline.    *)
(*                                                                         *)
(* An expression is a record; a row is a function from column names to     *)
(* cells.  Conjunctions are binary, as Binder::BindBoolExpr and            *)
(* ExpressionTransformer build them, and a CASE has one WHEN.              *)
(***************************************************************************)
EXTENDS ScalarFunctions

CONSTANTS
  Inputs,       \* queries: [filter, project, chunks]
  ColumnType    \* the type of each column of the table

VARIABLES
  input,            \* the query being run
  pos,              \* chunks taken from the source
  temporary_chunk,  \* Pipeline::temporary_chunk: a sequence of rows
  pc,               \* "source", "filter", "project", "done" or "aborted"
  true_sel,         \* CaseExpressionState::true_sel, kept between chunks
  kept,             \* the rows that passed the filter so far
  projected         \* the cells the projection made of them

vars == <<input, pos, temporary_chunk, pc, true_sel, kept, projected>>

-----------------------------------------------------------------------------
(* Columns. *)

Column(chunk, c) ==
  [type |-> ColumnType[c], cells |-> [i \in DOMAIN chunk |-> chunk[i][c]]]

\* Util::ArraySlice reads values without their validity bits: a null cell
\* comes out as the value under it.  An index past the end is not checked.
ArraySlice(column, sel) ==
  [type  |-> column.type,
   cells |-> [i \in DOMAIN sel |->
                IF sel[i] \in DOMAIN column.cells
                THEN Raw(column.type, column.cells[sel[i]]) ELSE Garbage]]

\* Mutant: the column is not narrowed to the selection.
WholeColumn(e, chunk, sel) == Column(chunk, e.column)

\* Execute(BoundColumnRefExpression)
ExecuteColumnRef(e, chunk, sel) ==
  IF sel # <<>> THEN ArraySlice(Column(chunk, e.column), sel)
                ELSE Column(chunk, e.column)

\* Execute(BoundConstantExpression)
ExecuteConstant(e, count) ==
  [type |-> e.type, cells |-> [i \in 1 .. count |-> e.value]]

\* Execute(Expression): the switch over the classes.
Execute(e, chunk, count, sel) ==
  IF e.class = "COLUMN_REF" THEN ExecuteColumnRef(e, chunk, sel)
                            ELSE ExecuteConstant(e, count)

-----------------------------------------------------------------------------
(* Select: what each class does to the selection vector. *)

\* Select(BoundComparisonExpression)
SelectComparison(e, chunk, count, sel) ==
  Compare(e.type, Execute(e.left, chunk, count, sel),
                  Execute(e.right, chunk, count, sel), count, sel)

\* Select(BoundFunctionExpression), the LIKE functions
SelectFunction(e, chunk, count, sel) ==
  LET matcher == CreateLikeMatcher(e.pattern)
      result  == LikeFunction(matcher, e.invert, Execute(e.left, chunk, count, sel), sel)
  IN  [result EXCEPT !.n = Len(result.sel)]

\* Select(BoundInExpression): no null test, and without a match only the
\* STRING case clears a selection it was given.
SelectIn(e, chunk, count, sel) ==
  LET column    == Execute(e.left, chunk, count, sel)
      passes(i) == Raw(column.type, column.cells[i]) \in e.value_set
      hits      == SelectSeq(Positions(count), passes)
  IN  IF hits = <<>> /\ column.type # "STRING"
      THEN [ok |-> TRUE, n |-> 0, sel |-> sel]
      ELSE Selected(hits, sel)

\* Util::MergeTwoSortedArrays: a position in both comes out once.
MergeTwoSortedArrays(a, b) == SetToSortSeq(Range(a) \cup Range(b), <)

\* The OR branch of Select(BoundConjunctionExpression).  Both children start
\* from an empty selection, whatever sel came in; sel is overwritten.
Either(first, second) ==
  IF first.sel # <<>>
  THEN LET sel == MergeTwoSortedArrays(first.sel, second.sel)
       IN  [ok |-> first.ok /\ second.ok, n |-> Len(sel), sel |-> sel]
  ELSE [second EXCEPT !.ok = first.ok /\ second.ok]

\* Select(Expression) with the AND branch of the conjunction: the second child
\* gets what the first one left, and is not asked when that is nothing.
RECURSIVE Select(_, _, _, _)
Select(e, chunk, count, sel) ==
  IF count = 0 THEN [ok |-> TRUE, n |-> 0, sel |-> sel]
  ELSE CASE e.class = "COMPARISON" -> SelectComparison(e, chunk, count, sel)
         [] e.class = "FUNCTION"   -> SelectFunction(e, chunk, count, sel)
         [] e.class = "IN"         -> SelectIn(e, chunk, count, sel)
         [] e.class = "OR"         -> Either(Select(e.left, chunk, count, <<>>),
                                             Select(e.right, chunk, count, <<>>))
         [] e.class = "AND"        ->
              LET first == Select(e.left, chunk, count, sel)
              IN  IF ~first.ok \/ first.n = 0 THEN first
                  ELSE Select(e.right, chunk, first.n, first.sel)

-----------------------------------------------------------------------------
(* Project: one column from a chunk. *)

\* ExecuteExpression for a column, a constant or a function of two columns.
RECURSIVE ExecuteExpression(_, _)
ExecuteExpression(e, chunk) ==
  CASE e.class = "PROJECT_FUNCTION" ->
         IF e.op = "llm" THEN LLMCall(e.prompt, ExecuteExpression(e.left, chunk))
         ELSE Arithmetic(e.op, ExecuteExpression(e.left, chunk),
                               ExecuteExpression(e.right, chunk))
    [] OTHER -> Execute(e, chunk, Len(chunk), <<>>)

\* The cells of a column, filed under the rows they are of.
ByRow(column, sel) ==
  [row \in Range(sel) |->
     [type |-> column.type,
      cell |-> column.cells[CHOOSE i \in DOMAIN sel : sel[i] = row]]]

\* Mutant: the cells of the first rows instead.
ThenFromTop(e, chunk, sel) == ByRow(ExecuteExpression(e, chunk), sel)

\* ExecuteThenExpression: the cells of the selected rows, each with its type.
ExecuteThenExpression(e, chunk, sel) ==
  ByRow(IF e.class = "PROJECT_FUNCTION"
        THEN ExecuteExpression(e, [i \in DOMAIN sel |-> chunk[sel[i]]])
        ELSE ArraySlice(Execute(e, chunk, Len(chunk), <<>>), sel), sel)

\* Util::GetSetDifference: the rows no WHEN took.
GetSetDifference(count, taken) == SetToSortSeq((1 .. count) \ Range(taken), <)

\* Value::GetValueUnsafe<T>: the bytes of the union, whatever was stored.  Only
\* an integer and a float zero have the same bytes.
GetValueUnsafe(type, value) ==
  IF \/ value.type = type
     \/ {value.type, type} = {"INT32", "FLOAT"} /\ value.cell = 0
  THEN value.cell ELSE Garbage

\* Util::AppendValueArray: the first row's type is the column's.
AppendValueArray(values) ==
  [i \in DOMAIN values |-> GetValueUnsafe(values[1].type, values[i])]

\* Nothing but the THEN rows when they are all of them.
Branches(e, chunk, when) ==
  IF when.n = Len(chunk) THEN ExecuteThenExpression(e.then, chunk, when.sel)
  ELSE ExecuteThenExpression(e.then, chunk, IF when.n = 0 THEN <<>> ELSE when.sel)
         @@ ExecuteThenExpression(e.else, chunk, GetSetDifference(Len(chunk), when.sel))

\* A row that neither branch filled is a null pointer; a chunk whose rows all
\* pass returns before true_sel is cleared.
CaseResult(count, when, values) ==
  IF ~when.ok \/ DOMAIN values # 1 .. count
  THEN [ok |-> FALSE, sel |-> <<>>, cells |-> <<>>]
  ELSE [ok    |-> TRUE,
        sel   |-> IF when.n = count THEN when.sel ELSE <<>>,
        cells |-> AppendValueArray(values)]

\* ExecuteExpression(BoundCaseExpression), given what the WHEN selected.
CaseOf(e, chunk, when) == CaseResult(Len(chunk), when, Branches(e, chunk, when))

\* Select starts from the true_sel the previous chunk left.
ExecuteCase(e, chunk, stale) == CaseOf(e, chunk, Select(e.when, chunk, Len(chunk), stale))

-----------------------------------------------------------------------------
(* The operators. *)

\* The operators' constructors: ExpressionExecutor::Initialize and the states.
Init ==
  /\ input \in Inputs
  /\ pos = 0
  /\ temporary_chunk = <<>>
  /\ pc = "source"
  /\ true_sel = <<>>
  /\ kept = <<>>
  /\ projected = <<>>

\* The pipeline takes a chunk; behind the last one comes an empty one.
GetData ==
  /\ pc = "source"
  /\ pos' = pos + 1
  /\ temporary_chunk' = IF pos < Len(input.chunks) THEN input.chunks[pos + 1] ELSE <<>>
  /\ pc' = "filter"
  /\ UNCHANGED <<input, true_sel, kept, projected>>

\* Util::RecordBatchSlice3: the selected rows, nulls as the values under them.
RecordBatchSlice3(chunk, sel) ==
  [i \in DOMAIN sel |-> [c \in DOMAIN chunk[1] |-> Raw(ColumnType[c], chunk[sel[i]][c])]]

\* PhysicalFilter::execute_operator.  Without rows left the loop goes on with
\* the next chunk.
Filter ==
  /\ pc = "filter"
  /\ UNCHANGED <<input, pos, true_sel, projected>>
  /\ LET r == Select(input.filter, temporary_chunk, Len(temporary_chunk), <<>>) IN
     \/ /\ temporary_chunk = <<>>
        /\ pc' = "project"
        /\ UNCHANGED <<temporary_chunk, kept>>
     \/ /\ temporary_chunk # <<>>
        /\ ~r.ok
        /\ pc' = "aborted"
        /\ UNCHANGED <<temporary_chunk, kept>>
     \/ /\ temporary_chunk # <<>>
        /\ r.ok
        /\ r.sel = <<>> \/ r.n = 0
        /\ temporary_chunk' = <<>>
        /\ pc' = "source"
        /\ UNCHANGED kept
     \/ /\ temporary_chunk # <<>>
        /\ r.ok
        /\ r.sel # <<>> /\ r.n # 0
        /\ temporary_chunk' = RecordBatchSlice3(temporary_chunk, r.sel)
        /\ kept' = kept \o temporary_chunk'
        /\ pc' = "project"

\* Util::GetSinlgeRow: minus one in every column, or a fixed string.
DefaultRow ==
  [c \in DOMAIN ColumnType |-> CASE ColumnType[c] = "INT32"  -> -1
                                 [] ColumnType[c] = "STRING" -> <<9>>
                                 [] OTHER                    -> -1000]

\* What the projection makes of a chunk.
ExecuteProject(e, chunk) ==
  IF e.class = "CASE" THEN ExecuteCase(e, chunk, true_sel)
  ELSE [ok |-> TRUE, sel |-> <<>>, cells |-> ExecuteExpression(e, chunk).cells]

\* PhysicalProject::execute_operator.  The last, empty chunk is replaced by the
\* default row to find out the schema, and what it computes is dropped.
Project ==
  /\ pc = "project"
  /\ UNCHANGED <<input, pos, kept>>
  /\ LET final == temporary_chunk = <<>> IN
     \E r \in {ExecuteProject(input.project, IF final THEN <<DefaultRow>> ELSE temporary_chunk)} :
       /\ true_sel' = r.sel
       /\ projected' = IF final THEN projected ELSE projected \o r.cells
       /\ temporary_chunk' = <<>>
       /\ pc' = IF ~r.ok THEN "aborted" ELSE IF final THEN "done" ELSE "source"

Next == GetData \/ Filter \/ Project

Spec == Init /\ [][Next]_vars

-----------------------------------------------------------------------------
(* What the expressions mean, row by row. *)

Cell(e, row) == IF e.class = "COLUMN_REF" THEN row[e.column] ELSE e.value
TypeOf(e)    == IF e.class = "COLUMN_REF" THEN ColumnType[e.column] ELSE e.type

\* Numbers are compared to two decimals.
Hundredths(e, row) ==
  IF TypeOf(e) = "INT32" THEN 100 * Cell(e, row) ELSE Cents(Cell(e, row))

Less(e, f, row) ==
  IF TypeOf(e) = "STRING" THEN StringLess(Cell(e, row), Cell(f, row))
                          ELSE Hundredths(e, row) < Hundredths(f, row)
Same(e, f, row) ==
  IF TypeOf(e) = "STRING" THEN Cell(e, row) = Cell(f, row)
                          ELSE Hundredths(e, row) = Hundredths(f, row)

\* SQL's LIKE, one character of the pattern at a time.
RECURSIVE Like(_, _)
Like(pattern, str) ==
  CASE pattern = <<>> -> str = <<>>
    [] pattern # <<>> /\ Head(pattern) = Percent ->
         \E k \in 1 .. Len(str) + 1 : Like(Tail(pattern), SubSeq(str, k, Len(str)))
    [] OTHER -> str # <<>> /\ Head(str) = Head(pattern) /\ Like(Tail(pattern), Tail(str))

RECURSIVE Holds(_, _)
Holds(e, row) ==
  CASE e.class = "AND"      -> Holds(e.left, row) /\ Holds(e.right, row)
    [] e.class = "OR"       -> Holds(e.left, row) \/ Holds(e.right, row)
    [] e.class = "FUNCTION" -> /\ Cell(e.left, row) # NULL
                               /\ Like(e.pattern, Cell(e.left, row)) # e.invert
    [] e.class = "IN"       -> Cell(e.left, row) \in e.value_set
    [] e.class = "COMPARISON" ->
         /\ Cell(e.left, row) # NULL /\ Cell(e.right, row) # NULL
         /\ CASE e.type = "COMPARE_EQUAL"       -> Same(e.left, e.right, row)
              [] e.type = "COMPARE_NOTEQUAL"    -> ~Same(e.left, e.right, row)
              [] e.type = "COMPARE_LESSTHAN"    -> Less(e.left, e.right, row)
              [] e.type = "COMPARE_GREATERTHAN" -> Less(e.right, e.left, row)
              [] e.type = "COMPARE_LESSTHANOREQUALTO"    -> ~Less(e.right, e.left, row)
              [] e.type = "COMPARE_GREATERTHANOREQUALTO" -> ~Less(e.left, e.right, row)

-----------------------------------------------------------------------------
(* Where the code is known to differ from that. *)

RECURSIVE Leaves(_)
Leaves(e) == IF e.class \in {"AND", "OR"} THEN Leaves(e.left) \cup Leaves(e.right) ELSE {e}

RECURSIVE HasOr(_)
HasOr(e) == \/ e.class = "OR"
            \/ e.class = "AND" /\ (HasOr(e.left) \/ HasOr(e.right))

\* An OR that is asked after another conjunct: it forgets the selection.
RECURSIVE OrBehindAnd(_)
OrBehindAnd(e) ==
  /\ e.class \in {"AND", "OR"}
  /\ \/ OrBehindAnd(e.left) \/ OrBehindAnd(e.right)
     \/ e.class = "AND" /\ HasOr(e.right)

\* An IN without a match behind a conjunct: the count is 0, but an OR around
\* the conjunction reads the selection that was left.
RECURSIVE InUnderOr(_)
InUnderOr(e) ==
  /\ e.class \in {"AND", "OR"}
  /\ \/ InUnderOr(e.left) \/ InUnderOr(e.right)
     \/ /\ e.class = "OR"
        /\ \E f \in {e.left, e.right} :
             f.class = "AND" /\ \E g \in Leaves(f) : g.class = "IN"

\* Leaves that see a null as a value: LIKE, IN and all behind a conjunct.
RECURSIVE NullBlind(_)
NullBlind(e) ==
  CASE e.class = "OR"         -> NullBlind(e.left) \cup NullBlind(e.right)
    [] e.class = "AND"        -> NullBlind(e.left) \cup Leaves(e.right)
    [] e.class = "COMPARISON" -> {}
    [] OTHER                  -> {e}

\* A FLOAT ordered against a DOUBLE of the same hundredths is not equal to it.
FloatMeetsDouble(e, row) ==
  /\ e.type \notin {"COMPARE_EQUAL", "COMPARE_NOTEQUAL"}
  /\ {TypeOf(e.left), TypeOf(e.right)} = {"FLOAT", "DOUBLE"}
  /\ Hundredths(e.left, row) = Hundredths(e.right, row)

\* Neighbouring hundredths that AreAlmostEqual takes for equal.
NeighboursMeet(e, row) ==
  /\ e.type \in {"COMPARE_EQUAL", "COMPARE_NOTEQUAL"}
  /\ {TypeOf(e.left), TypeOf(e.right)} \subseteq {"FLOAT", "DOUBLE"}
  /\ {Hundredths(e.left, row), Hundredths(e.right, row)} \in {{c, c + 1} : c \in StepBelow}

Operands(e) == {e.left} \cup (IF e.class = "COMPARISON" THEN {e.right} ELSE {})

\* The filters and rows the executor evaluates as SQL means them.
Exact(e, rows) ==
  /\ ~OrBehindAnd(e)
  /\ ~InUnderOr(e)
  /\ \A f \in Leaves(e), i \in DOMAIN rows :
       (f.class = "COMPARISON" /\ \A g \in Operands(f) : Cell(g, rows[i]) # NULL)
         => ~FloatMeetsDouble(f, rows[i]) /\ ~NeighboursMeet(f, rows[i])
  /\ \A f \in NullBlind(e) : \A g \in Operands(f), i \in DOMAIN rows :
       Cell(g, rows[i]) # NULL

-----------------------------------------------------------------------------
(* Properties. *)

\* The rows of the chunks the filter has seen.
Seen ==
  LET n == IF pc = "filter" THEN pos - 1 ELSE pos
  IN  FlattenSeq(SubSeq(input.chunks, 1, IF n > Len(input.chunks) THEN Len(input.chunks) ELSE n))
Passing(rows) == SelectSeq(rows, LAMBDA r : Holds(input.filter, r))
Ids(rows) == [i \in DOMAIN rows |-> rows[i].id]

\* The filter keeps the rows of the condition and no other, in their order:
\* the selection vector narrowed by one conjunct, merged by OR and mapped back
\* through slices still names the rows it means (Select, VectorOperations,
\* LikeMatcher::Match), but for the conditions and rows Exact leaves out: an OR
\* behind AND, an IN under OR, nulls behind a conjunct, a FLOAT ordered against
\* the DOUBLE of its own hundredths, and neighbouring hundredths that
\* AreAlmostEqual takes for equal.
FilterExact ==
  Exact(input.filter, Seen) => Ids(kept) = Ids(Passing(Seen))

\* The chunks that reach the projection, by what the condition means.
Chunks == SelectSeq([k \in DOMAIN input.chunks |-> Passing(input.chunks[k])],
                    LAMBDA chunk : chunk # <<>>)
AllTrue(chunk) == \A i \in DOMAIN chunk : Holds(input.project.when, chunk[i])

\* A chunk whose rows all take the THEN branch leaves its selection behind,
\* and the next chunk, or the default row, has another number of rows.
StaleSelection ==
  /\ input.project.class = "CASE"
  /\ \E k \in DOMAIN Chunks :
       /\ AllTrue(Chunks[k])
       /\ Len(Chunks[k]) # (IF k = Len(Chunks) THEN 1 ELSE Len(Chunks[k + 1]))

RECURSIVE ProjectType(_)
ProjectType(e) ==
  CASE e.class = "PROJECT_FUNCTION" ->
         IF e.op = "llm" THEN "STRING"
         ELSE ResultType(ProjectType(e.left), ProjectType(e.right))
    [] OTHER -> TypeOf(e)

RECURSIVE WellTyped(_)
WellTyped(e) ==
  CASE e.class = "CASE" -> /\ WellTyped(e.then) /\ WellTyped(e.else)
                           /\ ProjectType(e.then) = ProjectType(e.else)
    [] e.class = "PROJECT_FUNCTION" /\ e.op # "llm" ->
         /\ WellTyped(e.left) /\ WellTyped(e.right)
         /\ ReadAsTyped(ProjectType(e.left), ProjectType(e.right))
    [] OTHER -> TRUE

\* The value of the projection for one row.
RECURSIVE Value(_, _)
Value(e, row) ==
  CASE e.class = "CASE" -> IF Holds(e.when, row) THEN Value(e.then, row)
                                                 ELSE Value(e.else, row)
    [] OTHER -> ExecuteExpression(e, <<row>>).cells[1]

\* Every row that passed the filter gets the value of its own branch: the
\* indices of THEN, ELSE and the functions' slices stay in step with the rows
\* from chunk to chunk (ExecuteThenExpression, GetSetDifference), when both
\* branches have one type and no stale selection meets a chunk.
ProjectExact ==
  (/\ Exact(input.filter, Seen)
   /\ WellTyped(input.project)
   /\ ~StaleSelection
   /\ pc = "source")
    => projected = [i \in DOMAIN kept |-> Value(input.project, kept[i])]

\* A query ends in an assertion or a null pointer for two reasons only: an OR
\* behind another conjunct, or the selection a CASE kept from a chunk of
\* another size.
AbortsExplained ==
  pc = "aborted" => OrBehindAnd(input.filter) \/ StaleSelection

\* vector_operations.cpp:38 asserts in every kernel that the columns have as
\* many rows as the count it is given: no query fails that.
AssertionsHold == pc # "aborted"
=============================================================================
