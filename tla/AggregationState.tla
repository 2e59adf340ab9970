-------------------------- MODULE AggregationState --------------------------
(***************************************************************************)
(* The states of the aggregate functions, aggregation_state.hpp: what each *)
(* keeps, how a value is added and how two states are merged.  Values are  *)
(* integers; a null value is 0 to add, which does not look at is_null.     *)
(***************************************************************************)
EXTENDS Integers

CONSTANT NULL       \* a null value

AggFunctionType == {"COUNT", "AVG", "MIN", "MAX", "SUM"}

\* The value a null is read as.
Number(v) == IF v = NULL THEN 0 ELSE v

\* The constructors.
NewState(f) ==
  CASE f = "COUNT" -> [count |-> 0]
    [] f = "SUM"   -> [sum |-> 0]
    [] f = "AVG"   -> [sum |-> 0, count |-> 0]
    [] f = "MIN"   -> [init |-> FALSE, min |-> 0]
    [] f = "MAX"   -> [init |-> FALSE, max |-> 0]

AddCount(s, v) == [s EXCEPT !.count = @ + 1]
AddSum(s, v)   == [s EXCEPT !.sum = @ + Number(v)]
AddAvg(s, v)   == [s EXCEPT !.sum = @ + Number(v), !.count = @ + 1]
AddMin(s, v)   == IF ~s.init \/ Number(v) < s.min
                  THEN [init |-> TRUE, min |-> Number(v)] ELSE s
AddMax(s, v)   == IF ~s.init \/ Number(v) > s.max
                  THEN [init |-> TRUE, max |-> Number(v)] ELSE s

\* Aggstate::add
Add(f, s, v) ==
  CASE f = "COUNT" -> AddCount(s, v)
    [] f = "SUM"   -> AddSum(s, v)
    [] f = "AVG"   -> AddAvg(s, v)
    [] f = "MIN"   -> AddMin(s, v)
    [] f = "MAX"   -> AddMax(s, v)

MergeCount(s, o) == [s EXCEPT !.count = @ + o.count]
MergeSum(s, o)   == [s EXCEPT !.sum = @ + o.sum]
MergeAvg(s, o)   == [s EXCEPT !.sum = @ + o.sum, !.count = @ + o.count]
\* init is left as it was: a state without a value takes the other's value and
\* gives it up to the next one it is merged with.
MergeMin(s, o)   == IF o.init /\ (~s.init \/ o.min < s.min)
                    THEN [s EXCEPT !.min = o.min] ELSE s
MergeMax(s, o)   == IF o.init /\ (~s.init \/ o.max > s.max)
                    THEN [s EXCEPT !.max = o.max] ELSE s

\* Mutant: the other average's count is forgotten.
MergeSumsOnly(f, s, o) ==
  CASE f = "COUNT"          -> MergeCount(s, o)
    [] f \in {"SUM", "AVG"} -> [s EXCEPT !.sum = @ + o.sum]
    [] f = "MIN"            -> MergeMin(s, o)
    [] f = "MAX"            -> MergeMax(s, o)

\* Aggstate::merge
Merge(f, s, o) ==
  CASE f = "COUNT" -> MergeCount(s, o)
    [] f = "SUM"   -> MergeSum(s, o)
    [] f = "AVG"   -> MergeAvg(s, o)
    [] f = "MIN"   -> MergeMin(s, o)
    [] f = "MAX"   -> MergeMax(s, o)

\* finalize, finalize_avg; an average is given in thousandths.
Finalize(f, s) ==
  CASE f = "COUNT" -> s.count
    [] f = "SUM"   -> s.sum
    [] f = "AVG"   -> IF s.count = 0 THEN 0 ELSE (1000 * s.sum) \div s.count
    [] f = "MIN"   -> s.min
    [] f = "MAX"   -> s.max
=============================================================================
