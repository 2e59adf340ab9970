-------------------------- MODULE VectorOperations --------------------------
(***************************************************************************)
(* The comparison kernels of common/type/vector_operations.cpp: six        *)
(* functions, each with a loop for every pair of column types.             *)
(*                                                                         *)
(* A column is [type, cells].  An INT32 cell is an integer, a FLOAT or     *)
(* DOUBLE cell is a number of thousandths, a STRING cell a sequence of     *)
(* character codes; NULL is a null cell of any type.  A selection vector   *)
(* holds row positions, from 1; the empty one stands for all rows.         *)
(***************************************************************************)
EXTENDS Integers, Sequences, SequencesExt

CONSTANTS
  NULL,         \* a null cell
  FloatAbove,   \* hundredths whose nearest float lies above the nearest double
  FloatBelow,   \* hundredths whose nearest float lies below it
  StepBelow     \* hundredths c whose double and that of c + 1 differ by less than 0.01

\* A quarter of a unit is a binary fraction: float and double are both exact.
ASSUME FloatAssumption ==
  /\ FloatAbove \subseteq Int /\ FloatBelow \subseteq Int
  /\ FloatAbove \cap FloatBelow = {}
  /\ \A c \in FloatAbove \cup FloatBelow : c % 25 # 0
  /\ StepBelow \subseteq Int
  /\ \A c \in StepBelow : -(c + 1) \in StepBelow

Numeric == {"INT32", "FLOAT", "DOUBLE"}

\* RoundToDecimalPlaces(value, 2), in hundredths: std::round goes away from 0.
Cents(x) == IF x >= 0 THEN (x + 5) \div 10 ELSE -((5 - x) \div 10)

\* AreAlmostEqual(a, b, 2): both are rounded again as doubles, so floats lose
\* their error, and then |a - b| < 0.01 is taken of the doubles.  The doubles of
\* neighbouring hundredths can be nearer than that: 0.68 and 0.69 are.
AreAlmostEqual(x, y) ==
  \/ Cents(x) = Cents(y)
  \/ Cents(y) = Cents(x) + 1 /\ Cents(x) \in StepBelow
  \/ Cents(x) = Cents(y) + 1 /\ Cents(y) \in StepBelow

\* Where a cell lies for the built-in <, = and > on mixed types: a rounded
\* float is still the float nearest to its hundredths.
Key(type, x) ==
  CASE type = "INT32"  -> 300 * x
    [] type = "DOUBLE" -> 3 * Cents(x)
    [] type = "FLOAT"  -> 3 * Cents(x) + (IF Cents(x) \in FloatAbove THEN 1
                                          ELSE IF Cents(x) \in FloatBelow THEN -1
                                          ELSE 0)

\* std::string's operator<.
StringLess(s, t) ==
  \/ IsStrictPrefix(s, t)
  \/ \E k \in 1 .. Len(s) :
       /\ k <= Len(t)
       /\ SubSeq(s, 1, k - 1) = SubSeq(t, 1, k - 1)
       /\ s[k] < t[k]

-----------------------------------------------------------------------------
(* The loop every kernel runs. *)

\* An exception or a failed assertion: the selection is never read again.
Threw == [ok |-> FALSE, n |-> 0, sel |-> <<>>]

\* Mutant: the positions in the sliced column are not mapped back to rows.
Unmapped(hits, sel) == [ok |-> TRUE, n |-> Len(hits), sel |-> hits]

\* What a kernel leaves in sel and returns, given the positions that matched.
\* The columns are slices by sel when sel is not empty.
Selected(hits, sel) ==
  [ok  |-> TRUE,
   n   |-> Len(hits),
   sel |-> IF sel = <<>> THEN hits ELSE [j \in DOMAIN hits |-> sel[hits[j]]]]

Positions(n) == [i \in 1 .. n |-> i]

\* The rows that are null on neither side and pass the test.
Keep(Test(_, _), left, right, sel) ==
  LET passes(i) == /\ left.cells[i] # NULL
                   /\ right.cells[i] # NULL
                   /\ Test(left.cells[i], right.cells[i])
  IN  Selected(SelectSeq(Positions(Len(left.cells)), passes), sel)

\* The inner switch of a numeric kernel throws for any other right column.
KeepNumeric(Test(_, _), left, right, sel) ==
  IF right.type \in Numeric THEN Keep(Test, left, right, sel) ELSE Threw

-----------------------------------------------------------------------------
(* The outer switches, one case a left type. *)

EqualsINT32(left, right, sel) ==
  KeepNumeric(LAMBDA x, y : Key("INT32", x) = Key(right.type, y), left, right, sel)
EqualsFLOAT(left, right, sel) ==
  KeepNumeric(LAMBDA x, y : IF right.type = "INT32"
                            THEN Key("FLOAT", x) = Key("INT32", y)
                            ELSE AreAlmostEqual(x, y), left, right, sel)
EqualsDOUBLE(left, right, sel) ==
  KeepNumeric(LAMBDA x, y : IF right.type = "INT32"
                            THEN Key("DOUBLE", x) = Key("INT32", y)
                            ELSE AreAlmostEqual(x, y), left, right, sel)
EqualsSTRING(left, right, sel) ==
  Keep(LAMBDA x, y : x = y, left, right, sel)

NotEqualsINT32(left, right, sel) ==
  KeepNumeric(LAMBDA x, y : Key("INT32", x) # Key(right.type, y), left, right, sel)
NotEqualsFLOAT(left, right, sel) ==
  KeepNumeric(LAMBDA x, y : IF right.type = "INT32"
                            THEN Key("FLOAT", x) # Key("INT32", y)
                            ELSE ~AreAlmostEqual(x, y), left, right, sel)
NotEqualsDOUBLE(left, right, sel) ==
  KeepNumeric(LAMBDA x, y : IF right.type = "INT32"
                            THEN Key("DOUBLE", x) # Key("INT32", y)
                            ELSE ~AreAlmostEqual(x, y), left, right, sel)
NotEqualsSTRING(left, right, sel) ==
  Keep(LAMBDA x, y : x # y, left, right, sel)

GreaterThanINT32(left, right, sel) ==
  KeepNumeric(LAMBDA x, y : Key("INT32", x) > Key(right.type, y), left, right, sel)
GreaterThanFLOAT(left, right, sel) ==
  KeepNumeric(LAMBDA x, y : Key("FLOAT", x) > Key(right.type, y), left, right, sel)
GreaterThanDOUBLE(left, right, sel) ==
  KeepNumeric(LAMBDA x, y : Key("DOUBLE", x) > Key(right.type, y), left, right, sel)
GreaterThanSTRING(left, right, sel) ==
  Keep(LAMBDA x, y : StringLess(y, x), left, right, sel)

GreaterThanEqualsINT32(left, right, sel) ==
  KeepNumeric(LAMBDA x, y : Key("INT32", x) >= Key(right.type, y), left, right, sel)
GreaterThanEqualsFLOAT(left, right, sel) ==
  KeepNumeric(LAMBDA x, y : Key("FLOAT", x) >= Key(right.type, y), left, right, sel)
GreaterThanEqualsDOUBLE(left, right, sel) ==
  KeepNumeric(LAMBDA x, y : Key("DOUBLE", x) >= Key(right.type, y), left, right, sel)
GreaterThanEqualsSTRING(left, right, sel) ==
  Keep(LAMBDA x, y : ~StringLess(x, y), left, right, sel)

LessThanINT32(left, right, sel) ==
  KeepNumeric(LAMBDA x, y : Key("INT32", x) < Key(right.type, y), left, right, sel)
LessThanFLOAT(left, right, sel) ==
  KeepNumeric(LAMBDA x, y : Key("FLOAT", x) < Key(right.type, y), left, right, sel)
LessThanDOUBLE(left, right, sel) ==
  KeepNumeric(LAMBDA x, y : Key("DOUBLE", x) < Key(right.type, y), left, right, sel)
LessThanSTRING(left, right, sel) ==
  Keep(LAMBDA x, y : StringLess(x, y), left, right, sel)

LessThanEqualsINT32(left, right, sel) ==
  KeepNumeric(LAMBDA x, y : Key("INT32", x) <= Key(right.type, y), left, right, sel)
LessThanEqualsFLOAT(left, right, sel) ==
  KeepNumeric(LAMBDA x, y : Key("FLOAT", x) <= Key(right.type, y), left, right, sel)
LessThanEqualsDOUBLE(left, right, sel) ==
  KeepNumeric(LAMBDA x, y : Key("DOUBLE", x) <= Key(right.type, y), left, right, sel)
LessThanEqualsSTRING(left, right, sel) ==
  Keep(LAMBDA x, y : ~StringLess(y, x), left, right, sel)

-----------------------------------------------------------------------------
(* The six functions.  Each asserts that both columns have count rows; the *)
(* repository's build does not define NDEBUG.                               *)

Equals(left, right, sel) ==
  CASE left.type = "INT32"  -> EqualsINT32(left, right, sel)
    [] left.type = "FLOAT"  -> EqualsFLOAT(left, right, sel)
    [] left.type = "DOUBLE" -> EqualsDOUBLE(left, right, sel)
    [] left.type = "STRING" -> EqualsSTRING(left, right, sel)

NotEquals(left, right, sel) ==
  CASE left.type = "INT32"  -> NotEqualsINT32(left, right, sel)
    [] left.type = "FLOAT"  -> NotEqualsFLOAT(left, right, sel)
    [] left.type = "DOUBLE" -> NotEqualsDOUBLE(left, right, sel)
    [] left.type = "STRING" -> NotEqualsSTRING(left, right, sel)

GreaterThan(left, right, sel) ==
  CASE left.type = "INT32"  -> GreaterThanINT32(left, right, sel)
    [] left.type = "FLOAT"  -> GreaterThanFLOAT(left, right, sel)
    [] left.type = "DOUBLE" -> GreaterThanDOUBLE(left, right, sel)
    [] left.type = "STRING" -> GreaterThanSTRING(left, right, sel)

GreaterThanEquals(left, right, sel) ==
  CASE left.type = "INT32"  -> GreaterThanEqualsINT32(left, right, sel)
    [] left.type = "FLOAT"  -> GreaterThanEqualsFLOAT(left, right, sel)
    [] left.type = "DOUBLE" -> GreaterThanEqualsDOUBLE(left, right, sel)
    [] left.type = "STRING" -> GreaterThanEqualsSTRING(left, right, sel)

LessThan(left, right, sel) ==
  CASE left.type = "INT32"  -> LessThanINT32(left, right, sel)
    [] left.type = "FLOAT"  -> LessThanFLOAT(left, right, sel)
    [] left.type = "DOUBLE" -> LessThanDOUBLE(left, right, sel)
    [] left.type = "STRING" -> LessThanSTRING(left, right, sel)

LessThanEquals(left, right, sel) ==
  CASE left.type = "INT32"  -> LessThanEqualsINT32(left, right, sel)
    [] left.type = "FLOAT"  -> LessThanEqualsFLOAT(left, right, sel)
    [] left.type = "DOUBLE" -> LessThanEqualsDOUBLE(left, right, sel)
    [] left.type = "STRING" -> LessThanEqualsSTRING(left, right, sel)

\* The two assertions that open every function.
LengthsAgree(left, right, count) ==
  Len(left.cells) = count /\ Len(right.cells) = count

Compare(type, left, right, count, sel) ==
  IF ~LengthsAgree(left, right, count) THEN Threw
  ELSE CASE type = "COMPARE_EQUAL"                -> Equals(left, right, sel)
         [] type = "COMPARE_NOTEQUAL"             -> NotEquals(left, right, sel)
         [] type = "COMPARE_LESSTHAN"             -> LessThan(left, right, sel)
         [] type = "COMPARE_GREATERTHAN"          -> GreaterThan(left, right, sel)
         [] type = "COMPARE_LESSTHANOREQUALTO"    -> LessThanEquals(left, right, sel)
         [] type = "COMPARE_GREATERTHANOREQUALTO" -> GreaterThanEquals(left, right, sel)
=============================================================================
