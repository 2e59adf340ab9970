---------------------------- MODULE OrderByProofs ---------------------------
(***************************************************************************)
(* For any number of pipelines, rows, chunks and sort keys: the merged     *)
(* result is in order while and after it is made, and every row is in it   *)
(* once.                                                                   *)
(***************************************************************************)
EXTENDS OrderBy, WellFoundedInduction, TLAPS

RowsUpTo(p, n) == UNION {Range(input.chunks[p][c]) : c \in 1 .. n}

\* A sequence of the rows of a set, each once.
Lists(s, S) == s \in Seq(S) /\ Range(s) = S /\ IsInjective(s)

InOrder(s) == \A i, j \in DOMAIN s : i < j => ~RecordBatchComparator(s[i], s[j])

(* What a pipeline has cached, and the run it sorts it into. *)
CacheInv ==
  \A p \in Pipelines : phase[p] = "sink" =>
    /\ taken[p] \in 0 .. Len(input.chunks[p]) - 1
    /\ Lists(order_cache[p], RowsUpTo(p, taken[p]))

IsRun(run, p) ==
  /\ Lists(run.rows, RowsOf(input, p))
  /\ run.null <=> run.rows = <<>>
  /\ NoNullKeys => InOrder(run.rows)

RunInv ==
  /\ \A p \in Pipelines : phase[p] # "sink" => IsRun(sort_data[p], p)
  /\ \A p \in Pipelines : phase[p] = "published" /\ task # "ended" =>
       local_cache[p] = sort_data[p]

(* Where the merge is: the heap holds the first row that is not merged of  *)
(* every run that has one.                                                 *)
Rows(p) == sort_data[p].rows
InHeap(p) == \E e \in minHeap : e.sequence_index = p
Merged(p, i) == i < slice_idx[p] \/ ~InHeap(p)

HeapInv ==
  /\ \A e \in minHeap :
       /\ e.sequence_index \in Pipelines
       /\ slice_idx[e.sequence_index] \in DOMAIN Rows(e.sequence_index)
       /\ e = [row |-> Rows(e.sequence_index)[slice_idx[e.sequence_index]],
               sequence_index |-> e.sequence_index]
  /\ task = "ended" => minHeap = {}

ResultInv ==
  /\ global_sort_data \in Seq(Given) /\ IsInjective(global_sort_data)
  /\ \A p \in Pipelines : \A i \in DOMAIN Rows(p) :
       Rows(p)[i] \in Range(global_sort_data) <=> Merged(p, i)

OrderInv ==
  NoNullKeys =>
    /\ InOrder(global_sort_data)
    /\ \A i \in DOMAIN global_sort_data : \A p \in Pipelines : \A k \in DOMAIN Rows(p) :
         ~Merged(p, k) => ~RecordBatchComparator(global_sort_data[i], Rows(p)[k])

Shape ==
  /\ input \in Inputs
  /\ phase \in [Pipelines -> {"sink", "sorted", "published"}]
  /\ DOMAIN taken = Pipelines /\ DOMAIN order_cache = Pipelines
  /\ DOMAIN sort_data = Pipelines /\ DOMAIN local_cache = Pipelines
  /\ slice_idx \in [Pipelines -> Nat \ {0}]
  /\ task \in {"waiting", "merging", "ended"}
  /\ task = "waiting" => /\ minHeap = {} /\ global_sort_data = <<>>
                         /\ slice_idx = [p \in Pipelines |-> 1]
  /\ task # "waiting" => \A p \in Pipelines : phase[p] = "published"

SortInv ==
  /\ Shape /\ CacheInv /\ RunInv
  /\ task # "waiting" => HeapInv /\ ResultInv /\ OrderInv

-----------------------------------------------------------------------------
(* The comparator *)

\* A set of natural numbers that is not empty has a least member.
LEMMA LeastNumber ==
  ASSUME NEW T \in SUBSET Nat, T # {}
  PROVE  \E m \in T : \A n \in T : m <= n
<1> DEFINE R == OpToRel(<, Nat)
<1>1. PICK m \in T : \A y \in T : ~(<<y, m>> \in R)
  <2>1. IsWellFoundedOn(R, Nat)
    BY NatLessThanWellFounded
  <2> HIDE DEF R
  <2> QED BY <2>1, WFMin
<1>2. ASSUME NEW n \in T PROVE m <= n
  <2>1. ~(n < m)
    BY <1>1 DEF OpToRel
  <2> QED BY <2>1
<1> QED BY <1>2

\* What RecordBatchComparator reads of a row is a number for every key.
LEMMA RawIsNumber ==
  ASSUME input \in Inputs, NEW row \in Given, NEW k \in Keys
  PROVE  Raw(row.cols[k]) \in Int
BY InputAssumption DEF Given, Keys, Raw

LEMMA KeysAreNumbers ==
  ASSUME input \in Inputs
  PROVE  Keys = 1 .. Len(input.orders) /\ Len(input.orders) \in Nat
BY InputAssumption DEF Keys

(* "Does not come after" is transitive: at the first key in which the      *)
(* three rows are not all equal two of them would be out of order.         *)
LEMMA NotAfterTransitive ==
  ASSUME input \in Inputs, NEW a \in Given, NEW b \in Given, NEW c \in Given,
         ~RecordBatchComparator(a, b), ~RecordBatchComparator(b, c)
  PROVE  ~RecordBatchComparator(a, c)
<1> DEFINE A(k) == Raw(a.cols[k])
           B(k) == Raw(b.cols[k])
           C(k) == Raw(c.cols[k])
           After(k, x, y) == IF input.orders[k] = "DESCENDING" THEN x < y ELSE x > y
<1>1. \A k \in Keys : A(k) \in Int /\ B(k) \in Int /\ C(k) \in Int
  BY RawIsNumber
<1>2. /\ ~\E k \in Keys : (\A j \in 1 .. k - 1 : A(j) = B(j)) /\ After(k, A(k), B(k))
      /\ ~\E k \in Keys : (\A j \in 1 .. k - 1 : B(j) = C(j)) /\ After(k, B(k), C(k))
  BY DEF RecordBatchComparator
<1>3. SUFFICES ASSUME NEW k \in Keys, \A j \in 1 .. k - 1 : A(j) = C(j), After(k, A(k), C(k))
               PROVE  FALSE
  BY DEF RecordBatchComparator
<1> DEFINE D == {m \in Keys : m <= k /\ ~(A(m) = B(m) /\ B(m) = C(m))}
<1>4. k \in Nat /\ Keys \subseteq Nat \ {0} /\ \A m \in Keys : 1 .. m \subseteq Keys
  BY KeysAreNumbers
<1> HIDE DEF A, B, C
<1>5. k \in D
  <2>1. A(k) # C(k) /\ k <= k
    BY <1>1, <1>3, <1>4
  <2> QED BY <2>1
<1>6. PICK m \in D : \A n \in D : m <= n
  <2>1. D \subseteq Nat
    BY <1>4
  <2> HIDE DEF D
  <2> QED BY <1>5, <2>1, LeastNumber
<1>7. m \in Keys /\ m \in Nat /\ m <= k /\ A(m) \in Int /\ B(m) \in Int /\ C(m) \in Int
  BY <1>1, <1>4
<1>8. \A j \in 1 .. m - 1 : A(j) = B(j) /\ B(j) = C(j)
  <2> SUFFICES ASSUME NEW j \in 1 .. m - 1 PROVE A(j) = B(j) /\ B(j) = C(j)
    OBVIOUS
  <2>1. j \in 1 .. m /\ j < m /\ j <= k
    BY <1>4, <1>7
  <2>2. j \in Keys
    BY <1>4, <1>7, <2>1
  <2>3. j \notin D
    BY <1>6, <1>7, <2>1
  <2> QED BY <2>1, <2>2, <2>3
<1>9. ~After(m, A(m), B(m)) /\ ~After(m, B(m), C(m))
  BY <1>2, <1>7, <1>8
<1>10. CASE m = k
  BY <1>3, <1>7, <1>9, <1>10
<1>11. CASE m < k
  <2>1. A(m) = C(m)
    BY <1>3, <1>4, <1>7, <1>11
  <2> QED BY <1>7, <1>9, <2>1
<1> QED BY <1>4, <1>7, <1>10, <1>11

\* Without nulls sort_indices and the comparator agree.
LEMMA OrdersAgree ==
  ASSUME input \in Inputs, NoNullKeys, NEW a \in Given, NEW b \in Given
  PROVE  RecordBatchComparator(a, b) <=> RowLess(b, a)
<1>1. \A k \in Keys : /\ Raw(a.cols[k]) = a.cols[k] /\ Raw(b.cols[k]) = b.cols[k]
                      /\ a.cols[k] # NULL /\ b.cols[k] # NULL
                      /\ a.cols[k] \in Int /\ b.cols[k] \in Int
  BY InputAssumption DEF NoNullKeys, Raw, Given, Keys
<1>2. \A k \in Keys : 1 .. k - 1 \subseteq Keys
  BY KeysAreNumbers
<1>3. ASSUME NEW k \in Keys
      PROVE  (IF input.orders[k] = "DESCENDING" THEN Raw(a.cols[k]) < Raw(b.cols[k])
                                               ELSE Raw(a.cols[k]) > Raw(b.cols[k]))
             <=> CellLess(input.orders[k], b.cols[k], a.cols[k])
  BY <1>1 DEF CellLess
<1>4. ASSUME NEW k \in Keys
      PROVE  (\A j \in 1 .. k - 1 : Raw(a.cols[j]) = Raw(b.cols[j]))
             <=> (\A j \in 1 .. k - 1 : b.cols[j] = a.cols[j])
  BY <1>1, <1>2
<1> QED BY <1>3, <1>4 DEF RecordBatchComparator, RowLess

\* Of two rows at most one comes before the other.
LEMMA RowLessAsymmetric ==
  ASSUME input \in Inputs, NoNullKeys, NEW a \in Given, NEW b \in Given, RowLess(a, b)
  PROVE  ~RowLess(b, a)
<1>1. \A k \in Keys : /\ a.cols[k] # NULL /\ b.cols[k] # NULL
                      /\ a.cols[k] \in Int /\ b.cols[k] \in Int
  BY InputAssumption DEF NoNullKeys, Given, Keys
<1>2. SUFFICES ASSUME RowLess(b, a) PROVE FALSE
  OBVIOUS
<1>3. PICK k \in Keys : /\ \A j \in 1 .. k - 1 : a.cols[j] = b.cols[j]
                        /\ CellLess(input.orders[k], a.cols[k], b.cols[k])
  BY DEF RowLess
<1>4. PICK l \in Keys : /\ \A j \in 1 .. l - 1 : b.cols[j] = a.cols[j]
                        /\ CellLess(input.orders[l], b.cols[l], a.cols[l])
  BY <1>2 DEF RowLess
<1>5. a.cols[k] # b.cols[k] /\ a.cols[l] # b.cols[l]
  BY <1>1, <1>3, <1>4 DEF CellLess
<1>6. k \in Nat \ {0} /\ l \in Nat \ {0}
  BY KeysAreNumbers
<1>7. k = l
  BY <1>3, <1>4, <1>5, <1>6
<1> QED BY <1>1, <1>3, <1>4, <1>7 DEF CellLess

-----------------------------------------------------------------------------
(* Rows in sequences *)

LEMMA ChunkFacts ==
  ASSUME input \in Inputs, NEW p \in Pipelines
  PROVE  /\ input.chunks[p] \in Seq(Seq(Given)) /\ input.chunks[p] # <<>>
         /\ RowsOf(input, p) \subseteq Given
         /\ RowsOf(input, p) = RowsUpTo(p, Len(input.chunks[p]))
         /\ \A n \in 0 .. Len(input.chunks[p]) : RowsUpTo(p, n) \subseteq RowsOf(input, p)
<1>1. input.chunks[p] \in Seq(Seq(Given)) /\ input.chunks[p] # <<>>
  BY InputAssumption DEF Given
<1>2. RowsOf(input, p) \subseteq Given
  BY DEF Given, RowsGiven
<1>3. DOMAIN input.chunks[p] = 1 .. Len(input.chunks[p]) /\ Len(input.chunks[p]) \in Nat
  BY <1>1
<1>4. RowsOf(input, p) = RowsUpTo(p, Len(input.chunks[p]))
  BY <1>3 DEF RowsOf, RowsUpTo
<1>5. \A n \in 0 .. Len(input.chunks[p]) : 1 .. n \subseteq DOMAIN input.chunks[p]
  BY <1>3
<1> QED BY <1>1, <1>2, <1>4, <1>5 DEF RowsOf, RowsUpTo

\* One more chunk brings new rows only, each once.
LEMMA ChunkIsNew ==
  ASSUME input \in Inputs, NEW p \in Pipelines, NEW n \in 0 .. Len(input.chunks[p]) - 1
  PROVE  LET chunk == input.chunks[p][n + 1] IN
         /\ chunk \in Seq(Given) /\ IsInjective(chunk)
         /\ RowsUpTo(p, n + 1) = RowsUpTo(p, n) \cup Range(chunk)
         /\ RowsUpTo(p, n) \cap Range(chunk) = {}
<1> DEFINE chunk == input.chunks[p][n + 1]
<1>1. /\ n \in Nat /\ n + 1 \in DOMAIN input.chunks[p] /\ chunk \in Seq(Given)
      /\ 1 .. n \subseteq DOMAIN input.chunks[p]
      /\ 1 .. n + 1 = (1 .. n) \cup {n + 1} /\ n + 1 \notin 1 .. n
  BY ChunkFacts
<1>2. \A c \in DOMAIN input.chunks[p], d \in DOMAIN input.chunks[p] :
        \A i \in DOMAIN input.chunks[p][c], j \in DOMAIN input.chunks[p][d] :
          input.chunks[p][c][i] = input.chunks[p][d][j] => c = d /\ i = j
  BY InputAssumption
<1>3. IsInjective(chunk)
  BY <1>1, <1>2 DEF IsInjective
<1>4. RowsUpTo(p, n + 1) = RowsUpTo(p, n) \cup Range(chunk)
  BY <1>1 DEF RowsUpTo
<1>5. RowsUpTo(p, n) \cap Range(chunk) = {}
  <2> SUFFICES ASSUME NEW c \in 1 .. n, NEW i \in DOMAIN input.chunks[p][c],
                      NEW j \in DOMAIN chunk, input.chunks[p][c][i] = chunk[j]
               PROVE  FALSE
    BY DEF RowsUpTo, Range
  <2>1. c \in DOMAIN input.chunks[p] /\ c # n + 1
    BY <1>1
  <2> QED BY <1>1, <1>2, <2>1
<1> QED BY <1>1, <1>3, <1>4, <1>5

LEMMA ConcatLists ==
  ASSUME NEW S, NEW T, NEW U, NEW s, NEW t, Lists(s, S), t \in Seq(U), IsInjective(t),
         Range(t) = T, S \cap T = {}
  PROVE  Lists(s \o t, S \cup T)
<1>1. s \in Seq(S) /\ IsInjective(s) /\ Range(s) = S
  BY DEF Lists
<1>2. t \in Seq(T)
  <2>1. \A i \in 1 .. Len(t) : t[i] \in T
    BY DEF Range
  <2> QED BY <2>1
<1>3. /\ s \o t \in Seq(S \cup T) /\ Len(s) \in Nat /\ Len(t) \in Nat
      /\ DOMAIN (s \o t) = 1 .. Len(s) + Len(t)
      /\ DOMAIN s = 1 .. Len(s) /\ DOMAIN t = 1 .. Len(t)
      /\ \A i \in 1 .. Len(s) : (s \o t)[i] = s[i]
      /\ \A i \in 1 .. Len(t) : (s \o t)[Len(s) + i] = t[i]
      /\ \A i \in 1 .. Len(s) + Len(t) :
           i \in 1 .. Len(s) \/ (i - Len(s) \in 1 .. Len(t) /\ (s \o t)[i] = t[i - Len(s)])
  BY <1>1, <1>2
<1> DEFINE u == s \o t
<1> HIDE DEF u
<1>4. /\ u \in Seq(S \cup T) /\ DOMAIN u = 1 .. Len(s) + Len(t)
      /\ \A i \in 1 .. Len(s) : u[i] = s[i]
      /\ \A i \in 1 .. Len(t) : u[Len(s) + i] = t[i]
      /\ \A i \in 1 .. Len(s) + Len(t) :
           i \in 1 .. Len(s) \/ (i - Len(s) \in 1 .. Len(t) /\ u[i] = t[i - Len(s)])
  BY <1>3 DEF u
<1>5. \A i \in DOMAIN s : s[i] \in S
  BY <1>1 DEF Range
<1>6. \A i \in DOMAIN t : t[i] \in T
  BY DEF Range
<1>7. IsInjective(u)
  <2> SUFFICES ASSUME NEW i \in DOMAIN u, NEW j \in DOMAIN u, u[i] = u[j] PROVE i = j
    BY DEF IsInjective
  <2>1. CASE i \in 1 .. Len(s) /\ j \in 1 .. Len(s)
    BY <1>1, <1>3, <1>4, <2>1 DEF IsInjective
  <2>2. CASE i \in 1 .. Len(s) /\ j \notin 1 .. Len(s)
    BY <1>3, <1>4, <1>5, <1>6, <2>2, SMTT(30)
  <2>3. CASE i \notin 1 .. Len(s) /\ j \in 1 .. Len(s)
    BY <1>3, <1>4, <1>5, <1>6, <2>3
  <2>4. CASE i \notin 1 .. Len(s) /\ j \notin 1 .. Len(s)
    <3>1. /\ i - Len(s) \in DOMAIN t /\ j - Len(s) \in DOMAIN t
          /\ t[i - Len(s)] = t[j - Len(s)]
      BY <1>3, <1>4, <2>4
    <3>2. i - Len(s) = j - Len(s)
      BY <3>1 DEF IsInjective
    <3>3. i \in Int /\ j \in Int /\ Len(s) \in Int
      BY <1>3, <1>4
    <3> QED BY <3>2, <3>3
  <2> QED BY <2>1, <2>2, <2>3, <2>4
<1>8. Range(u) = S \cup T
  <2>1. ASSUME NEW x \in S PROVE x \in Range(u)
    <3>1. PICK i \in DOMAIN s : x = s[i]
      BY <1>1 DEF Range
    <3>2. i \in DOMAIN u /\ u[i] = x
      BY <1>3, <1>4, <3>1
    <3> QED BY <3>2 DEF Range
  <2>2. ASSUME NEW x \in T PROVE x \in Range(u)
    <3>1. PICK i \in DOMAIN t : x = t[i]
      BY DEF Range
    <3>2. Len(s) + i \in DOMAIN u /\ u[Len(s) + i] = x
      BY <1>3, <1>4, <3>1
    <3> QED BY <3>2 DEF Range
  <2>3. Range(u) \subseteq S \cup T
    BY <1>4 DEF Range
  <2> QED BY <2>1, <2>2, <2>3
<1> QED BY <1>4, <1>7, <1>8 DEF Lists, u

\* What sort_indices makes of a pipeline's rows is its run.
LEMMA SortedIsRun ==
  ASSUME input \in Inputs, NEW p \in Pipelines, NEW rows, Lists(rows, RowsOf(input, p)),
         NEW run \in SortInLocal(rows)
  PROVE  IsRun(run, p)
<1>1. CASE rows = <<>>
  <2>1. run.null = TRUE /\ run.rows = <<>>
    BY <1>1 DEF SortInLocal, NoRun
  <2> QED BY <1>1, <2>1 DEF IsRun, InOrder
<1>2. CASE rows # <<>>
  <2>1. PICK idx \in SortIndices(rows) : run = Run([i \in DOMAIN rows |-> rows[idx[i]]])
    BY <1>2 DEF SortInLocal
  <2> DEFINE t == [i \in DOMAIN rows |-> rows[idx[i]]]
  <2>2. run.null = FALSE /\ run.rows = t
    BY <2>1 DEF Run
  <2>3. /\ idx \in [DOMAIN rows -> DOMAIN rows] /\ IsInjective(idx)
        /\ \A k \in DOMAIN rows : \E i \in DOMAIN rows : idx[i] = k
        /\ \A i, j \in DOMAIN rows : i < j => ~RowLess(rows[idx[j]], rows[idx[i]])
                                              \/ RowLess(rows[idx[i]], rows[idx[j]])
    BY DEF SortIndices, Bijection, Injection, Surjection
  <2>4. /\ rows \in Seq(RowsOf(input, p)) /\ Range(rows) = RowsOf(input, p)
        /\ IsInjective(rows) /\ DOMAIN rows = 1 .. Len(rows) /\ Len(rows) \in Nat
        /\ Len(rows) # 0
    BY <1>2 DEF Lists
  <2>5. /\ DOMAIN t = DOMAIN rows
        /\ \A i \in DOMAIN rows : t[i] = rows[idx[i]] /\ idx[i] \in DOMAIN rows
                                  /\ t[i] \in RowsOf(input, p)
    BY <2>3, <2>4
  <2>6. t \in [1 .. Len(rows) -> RowsOf(input, p)]
    BY <2>4, <2>5
  <2> HIDE DEF t
  <2>10. t \in Seq(RowsOf(input, p)) /\ t # <<>>
    <3> DEFINE n == Len(rows)
               S == RowsOf(input, p)
    <3>1. n \in Nat /\ n # 0 /\ t \in [1 .. n -> S]
      BY <2>4, <2>6
    <3> HIDE DEF n, S
    <3>2. t \in Seq(S) /\ Len(t) = n
      BY <3>1
    <3> QED BY <3>1, <3>2 DEF S
  <2>7. Range(t) = RowsOf(input, p)
    <3>1. ASSUME NEW x \in Range(rows) PROVE x \in Range(t)
      <4>1. PICK k \in DOMAIN rows : x = rows[k]
        BY <3>1 DEF Range
      <4>2. PICK i \in DOMAIN rows : idx[i] = k
        BY <2>3
      <4> QED BY <2>5, <4>1, <4>2 DEF Range
    <3>2. Range(t) \subseteq RowsOf(input, p)
      BY <2>5 DEF Range
    <3> QED BY <2>4, <3>1, <3>2
  <2>8. IsInjective(t)
    BY <2>3, <2>4, <2>5 DEF IsInjective
  <2>9. ASSUME NoNullKeys, NEW i \in DOMAIN t, NEW j \in DOMAIN t, i < j
        PROVE  ~RecordBatchComparator(t[i], t[j])
    <3>1. t[i] \in Given /\ t[j] \in Given
      BY <2>5, ChunkFacts
    <3>2. ~RowLess(t[j], t[i]) \/ RowLess(t[i], t[j])
      BY <2>3, <2>5, <2>9
    <3>3. RowLess(t[i], t[j]) => ~RowLess(t[j], t[i])
      BY <2>9, <3>1, RowLessAsymmetric
    <3> QED BY <2>9, <3>1, <3>2, <3>3, OrdersAgree
  <2> QED BY <2>2, <2>10, <2>7, <2>8, <2>9 DEF IsRun, Lists, InOrder
<1> QED BY <1>1, <1>2

-----------------------------------------------------------------------------
(* Sinking, sorting and publishing *)

\* What depends on the input alone.
LEMMA SameInput ==
  ASSUME UNCHANGED input
  PROVE  /\ Given' = Given /\ Keys' = Keys /\ NoNullKeys' = NoNullKeys
         /\ \A p : RowsOf(input, p)' = RowsOf(input, p)
         /\ \A p, n : RowsUpTo(p, n)' = RowsUpTo(p, n)
         /\ \A a, b : RecordBatchComparator(a, b)' = RecordBatchComparator(a, b)
         /\ \A s : InOrder(s)' = InOrder(s)
         /\ \A run, p : IsRun(run, p)' = IsRun(run, p)
<1>1. /\ Given' = Given /\ Keys' = Keys
      /\ \A p : RowsOf(input, p)' = RowsOf(input, p)
      /\ \A p, n : RowsUpTo(p, n)' = RowsUpTo(p, n)
  BY DEF Given, Keys, RowsUpTo
<1>2. \A a, b : RecordBatchComparator(a, b)' = RecordBatchComparator(a, b)
  BY <1>1 DEF RecordBatchComparator
<1>3. NoNullKeys' = NoNullKeys
  BY <1>1 DEF NoNullKeys
<1>4. \A s : InOrder(s)' = InOrder(s)
  BY <1>2 DEF InOrder
<1>5. \A run, p : IsRun(run, p)' = IsRun(run, p)
  BY <1>1, <1>3, <1>4 DEF IsRun
<1> QED BY <1>1, <1>2, <1>3, <1>4, <1>5

LEMMA InitSortInv == Init => SortInv
<1> SUFFICES ASSUME Init PROVE SortInv
  OBVIOUS
<1>1. Shape
  BY DEF Init, Shape
<1>2. CacheInv
  <2> SUFFICES ASSUME NEW p \in Pipelines
               PROVE  /\ taken[p] \in 0 .. Len(input.chunks[p]) - 1
                      /\ Lists(order_cache[p], RowsUpTo(p, taken[p]))
    BY DEF CacheInv
  <2>1. taken[p] = 0 /\ order_cache[p] = <<>> /\ input \in Inputs
    BY DEF Init
  <2>2. Len(input.chunks[p]) \in Nat \ {0}
    BY <2>1, ChunkFacts
  <2>3. RowsUpTo(p, 0) = {}
    BY DEF RowsUpTo
  <2>4. Lists(<<>>, {})
    BY DEF Lists, Range, IsInjective
  <2>5. 0 \in 0 .. Len(input.chunks[p]) - 1
    BY <2>2
  <2> QED BY <2>1, <2>3, <2>4, <2>5
<1>3. RunInv
  BY DEF Init, RunInv
<1> QED BY <1>1, <1>2, <1>3 DEF SortInv, Init

(* A pipeline's chunk, up to n chunks before it, goes into its cache. *)
LEMMA CacheGrows ==
  ASSUME Shape, CacheInv, NEW p \in Pipelines, phase[p] = "sink"
  PROVE  /\ taken[p] \in Nat /\ taken[p] + 1 <= Len(input.chunks[p])
         /\ Len(input.chunks[p]) \in Nat
         /\ Lists(order_cache[p] \o input.chunks[p][taken[p] + 1], RowsUpTo(p, taken[p] + 1))
<1>1. taken[p] \in 0 .. Len(input.chunks[p]) - 1 /\ Lists(order_cache[p], RowsUpTo(p, taken[p]))
  BY DEF CacheInv
<1>2. input \in Inputs /\ Len(input.chunks[p]) \in Nat
  BY ChunkFacts DEF Shape
<1>3. /\ input.chunks[p][taken[p] + 1] \in Seq(Given)
      /\ IsInjective(input.chunks[p][taken[p] + 1])
      /\ RowsUpTo(p, taken[p] + 1) = RowsUpTo(p, taken[p]) \cup Range(input.chunks[p][taken[p] + 1])
      /\ RowsUpTo(p, taken[p]) \cap Range(input.chunks[p][taken[p] + 1]) = {}
  BY <1>1, <1>2, ChunkIsNew
<1>4. Lists(order_cache[p] \o input.chunks[p][taken[p] + 1],
            RowsUpTo(p, taken[p]) \cup Range(input.chunks[p][taken[p] + 1]))
  BY <1>1, <1>3, ConcatLists
<1>5. taken[p] \in Nat /\ taken[p] + 1 <= Len(input.chunks[p])
  BY <1>1, <1>2
<1> QED BY <1>2, <1>3, <1>4, <1>5

LEMMA SinkKeepsInv ==
  ASSUME SortInv, NEW p \in Pipelines, Sink(p)
  PROVE  SortInv'
<1>1. /\ phase[p] = "sink" /\ UNCHANGED <<input, phase, sort_data, local_cache, task, minHeap,
                                          slice_idx, global_sort_data>>
      /\ taken[p] < Len(input.chunks[p]) - 1
      /\ order_cache' = [order_cache EXCEPT ![p] = @ \o input.chunks[p][taken[p] + 1]]
      /\ taken' = [taken EXCEPT ![p] = @ + 1]
  BY DEF Sink
<1>2. Shape /\ CacheInv /\ RunInv /\ task = "waiting"
  BY <1>1 DEF SortInv, Shape
<1>3. Shape'
  BY <1>1, <1>2 DEF Shape
<1>4. CacheInv'
  <2> SUFFICES ASSUME NEW q \in Pipelines, phase[q] = "sink"
               PROVE  /\ taken'[q] \in 0 .. Len(input.chunks[q]) - 1
                      /\ Lists(order_cache'[q], RowsUpTo(q, taken'[q]))
    <3>1. \A q : RowsUpTo(q, taken[q])' = RowsUpTo(q, taken'[q])
      BY <1>1 DEF RowsUpTo
    <3> QED BY <1>1, <3>1 DEF CacheInv, Lists
  <2>1. CASE q = p
    <3>1. taken'[p] = taken[p] + 1
          /\ order_cache'[p] = order_cache[p] \o input.chunks[p][taken[p] + 1]
      BY <1>1, <1>2 DEF Shape
    <3>2. /\ taken[p] \in Nat /\ Len(input.chunks[p]) \in Nat
          /\ Lists(order_cache'[p], RowsUpTo(p, taken'[p]))
      BY <1>1, <1>2, <3>1, CacheGrows
    <3>3. taken'[p] \in 0 .. Len(input.chunks[p]) - 1
      BY <1>1, <3>1, <3>2, SMTT(30)
    <3> QED BY <2>1, <3>2, <3>3
  <2>2. CASE q # p
    <3>1. taken'[q] = taken[q] /\ order_cache'[q] = order_cache[q]
      BY <1>1, <1>2, <2>2 DEF Shape
    <3> QED BY <1>2, <3>1 DEF CacheInv
  <2> QED BY <2>1, <2>2
<1>5. RunInv'
  <2>1. \A q : IsRun(sort_data[q], q)' = IsRun(sort_data[q], q)
    BY <1>1, SameInput DEF IsRun, InOrder
  <2> QED BY <1>1, <1>2, <2>1 DEF RunInv
<1> QED BY <1>1, <1>2, <1>3, <1>4, <1>5 DEF SortInv

LEMMA FinalChunkKeepsInv ==
  ASSUME SortInv, NEW p \in Pipelines, FinalChunk(p)
  PROVE  SortInv'
<1>1. /\ phase[p] = "sink" /\ UNCHANGED <<input, local_cache, task, minHeap, slice_idx,
                                          global_sort_data>>
      /\ taken[p] = Len(input.chunks[p]) - 1
      /\ order_cache' = [order_cache EXCEPT ![p] = @ \o Last(input.chunks[p])]
      /\ taken' = [taken EXCEPT ![p] = @ + 1]
      /\ phase' = [phase EXCEPT ![p] = "sorted"]
  BY DEF FinalChunk
<1>2. PICK run \in SortInLocal(order_cache'[p]) : sort_data' = [sort_data EXCEPT ![p] = run]
  BY DEF FinalChunk
<1>3. Shape /\ CacheInv /\ RunInv /\ task = "waiting"
  BY <1>1 DEF SortInv, Shape
<1>4. Shape'
  BY <1>1, <1>2, <1>3 DEF Shape
<1>5. CacheInv'
  <2> SUFFICES ASSUME NEW q \in Pipelines, phase'[q] = "sink"
               PROVE  /\ taken'[q] \in 0 .. Len(input.chunks[q]) - 1
                      /\ Lists(order_cache'[q], RowsUpTo(q, taken'[q]))
    <3>1. \A q : RowsUpTo(q, taken[q])' = RowsUpTo(q, taken'[q])
      BY <1>1 DEF RowsUpTo
    <3> QED BY <1>1, <3>1 DEF CacheInv, Lists
  <2>1. q # p /\ phase[q] = "sink" /\ taken'[q] = taken[q] /\ order_cache'[q] = order_cache[q]
    BY <1>1, <1>3 DEF Shape
  <2> QED BY <1>3, <2>1 DEF CacheInv
<1>6. IsRun(run, p)
  <2>1. order_cache'[p] = order_cache[p] \o Last(input.chunks[p])
    BY <1>1, <1>3 DEF Shape
  <2>2. input \in Inputs /\ taken[p] + 1 = Len(input.chunks[p])
    BY <1>1, <1>3, CacheGrows DEF Shape
  <2>3. Last(input.chunks[p]) = input.chunks[p][taken[p] + 1]
    BY <2>2 DEF Last
  <2>4. Lists(order_cache'[p], RowsUpTo(p, taken[p] + 1))
    BY <1>1, <1>3, <2>1, <2>3, CacheGrows
  <2>5. RowsUpTo(p, taken[p] + 1) = RowsOf(input, p)
    BY <2>2, ChunkFacts
  <2> QED BY <1>2, <2>2, <2>4, <2>5, SortedIsRun
<1>7. RunInv'
  <2>1. \A q : IsRun(sort_data[q], q)' = IsRun(sort_data'[q], q)
    BY <1>1, SameInput DEF IsRun, InOrder
  <2>2. ASSUME NEW q \in Pipelines, phase'[q] # "sink" PROVE IsRun(sort_data'[q], q)
    <3>1. CASE q = p
      BY <1>2, <1>3, <1>6, <3>1 DEF Shape
    <3>2. CASE q # p
      <4>1. sort_data'[q] = sort_data[q] /\ phase[q] # "sink"
        BY <1>1, <1>2, <1>3, <2>2, <3>2 DEF Shape
      <4> QED BY <1>3, <4>1 DEF RunInv
    <3> QED BY <3>1, <3>2
  <2>3. ASSUME NEW q \in Pipelines, phase'[q] = "published" PROVE local_cache'[q] = sort_data'[q]
    <3>1. q # p /\ phase[q] = "published" /\ sort_data'[q] = sort_data[q]
      BY <1>1, <1>2, <1>3, <2>3 DEF Shape
    <3> QED BY <1>1, <1>3, <3>1 DEF RunInv
  <2> QED BY <2>1, <2>2, <2>3 DEF RunInv
<1> QED BY <1>1, <1>3, <1>4, <1>5, <1>7 DEF SortInv

LEMMA PublishKeepsInv ==
  ASSUME SortInv, NEW p \in Pipelines, Publish(p)
  PROVE  SortInv'
<1>1. /\ phase[p] = "sorted" /\ UNCHANGED <<input, taken, sort_data, task, minHeap, slice_idx,
                                            global_sort_data>>
      /\ order_cache' = [order_cache EXCEPT ![p] = <<>>]
      /\ local_cache' = [local_cache EXCEPT ![p] = sort_data[p]]
      /\ phase' = [phase EXCEPT ![p] = "published"]
  BY DEF Publish
<1>2. Shape /\ CacheInv /\ RunInv /\ task = "waiting"
  BY <1>1 DEF SortInv, Shape
<1>3. Shape'
  BY <1>1, <1>2 DEF Shape
<1>4. CacheInv'
  <2> SUFFICES ASSUME NEW q \in Pipelines, phase'[q] = "sink"
               PROVE  /\ taken[q] \in 0 .. Len(input.chunks[q]) - 1
                      /\ Lists(order_cache'[q], RowsUpTo(q, taken[q]))
    <3>1. \A q : RowsUpTo(q, taken[q])' = RowsUpTo(q, taken[q])
      BY <1>1 DEF RowsUpTo
    <3> QED BY <1>1, <3>1 DEF CacheInv, Lists
  <2>1. q # p /\ phase[q] = "sink" /\ order_cache'[q] = order_cache[q]
    BY <1>1, <1>2 DEF Shape
  <2> QED BY <1>2, <2>1 DEF CacheInv
<1>5. RunInv'
  <2>1. \A q : IsRun(sort_data[q], q)' = IsRun(sort_data[q], q)
    BY <1>1, SameInput DEF IsRun, InOrder
  <2>2. ASSUME NEW q \in Pipelines, phase'[q] # "sink" PROVE IsRun(sort_data[q], q)
    BY <1>1, <1>2, <2>2 DEF RunInv, Shape
  <2>3. ASSUME NEW q \in Pipelines, phase'[q] = "published" PROVE local_cache'[q] = sort_data[q]
    BY <1>1, <1>2, <2>3 DEF RunInv, Shape
  <2> QED BY <1>1, <2>1, <2>2, <2>3 DEF RunInv
<1> QED BY <1>1, <1>2, <1>3, <1>4, <1>5 DEF SortInv

-----------------------------------------------------------------------------
(* Merging *)

LEMMA RunFacts ==
  ASSUME Shape, RunInv, NEW p \in Pipelines, phase[p] = "published"
  PROVE  /\ Rows(p) \in Seq(RowsOf(input, p)) /\ Range(Rows(p)) = RowsOf(input, p)
         /\ IsInjective(Rows(p)) /\ DOMAIN Rows(p) = 1 .. Len(Rows(p)) /\ Len(Rows(p)) \in Nat
         /\ \A i \in DOMAIN Rows(p) : Rows(p)[i] \in Given
         /\ NoNullKeys => InOrder(Rows(p))
         /\ task # "ended" => /\ local_cache[p].rows = Rows(p)
                              /\ RunSize(p) = Len(Rows(p))
<1>1. IsRun(sort_data[p], p)
  BY DEF RunInv
<1>2. /\ Rows(p) \in Seq(RowsOf(input, p)) /\ Range(Rows(p)) = RowsOf(input, p)
      /\ IsInjective(Rows(p)) /\ (NoNullKeys => InOrder(Rows(p)))
      /\ sort_data[p].null <=> Rows(p) = <<>>
  BY <1>1 DEF IsRun, Lists, Rows
<1>3. \A i \in DOMAIN Rows(p) : Rows(p)[i] \in Given
  BY <1>2, ChunkFacts DEF Range, Shape
<1>4. DOMAIN Rows(p) = 1 .. Len(Rows(p)) /\ Len(Rows(p)) \in Nat
  BY <1>2
<1>5. ASSUME task # "ended" PROVE local_cache[p].rows = Rows(p) /\ RunSize(p) = Len(Rows(p))
  <2>1. local_cache[p] = sort_data[p]
    BY <1>5 DEF RunInv
  <2>2. local_cache[p].rows = Rows(p) /\ (local_cache[p].null <=> Rows(p) = <<>>)
    BY <1>2, <2>1 DEF Rows
  <2> QED BY <1>2, <1>4, <2>2 DEF RunSize
<1> QED BY <1>2, <1>3, <1>4, <1>5

\* A row is in one run, once.
LEMMA RowsDiffer ==
  ASSUME Shape, RunInv, \A p \in Pipelines : phase[p] = "published",
         NEW p \in Pipelines, NEW q \in Pipelines,
         NEW i \in DOMAIN Rows(p), NEW j \in DOMAIN Rows(q), Rows(p)[i] = Rows(q)[j]
  PROVE  p = q /\ i = j
<1>1. Rows(p)[i] \in RowsOf(input, p) /\ Rows(p)[i] \in RowsOf(input, q)
  BY RunFacts DEF Range
<1>2. PICK c \in DOMAIN input.chunks[p] : \E k \in DOMAIN input.chunks[p][c] :
        Rows(p)[i] = input.chunks[p][c][k]
  BY <1>1 DEF RowsOf, Range
<1>3. PICK d \in DOMAIN input.chunks[q] : \E l \in DOMAIN input.chunks[q][d] :
        Rows(p)[i] = input.chunks[q][d][l]
  BY <1>1 DEF RowsOf, Range
<1>4. p = q
  <2>1. \A x \in DOMAIN input.chunks[p], y \in DOMAIN input.chunks[q] :
          \A m \in DOMAIN input.chunks[p][x], n \in DOMAIN input.chunks[q][y] :
            input.chunks[p][x][m] = input.chunks[q][y][n] => p = q
    BY InputAssumption DEF Shape
  <2> QED BY <1>2, <1>3, <2>1
<1> QED BY <1>4, RunFacts DEF IsInjective

LEMMA StartMergeKeepsInv ==
  ASSUME SortInv, StartMerge
  PROVE  SortInv'
<1> DEFINE runs == {p \in Pipelines : RunSize(p) # 0}
<1>1. /\ task = "waiting" /\ \A p \in Pipelines : phase[p] = "published"
      /\ minHeap' = {[row |-> local_cache[p].rows[1], sequence_index |-> p] : p \in runs}
      /\ task' = IF runs = {} THEN "ended" ELSE "merging"
      /\ UNCHANGED <<input, phase, taken, order_cache, sort_data, local_cache, slice_idx,
                     global_sort_data>>
  BY DEF StartMerge
<1>2. /\ Shape /\ CacheInv /\ RunInv
      /\ global_sort_data = <<>> /\ slice_idx = [p \in Pipelines |-> 1]
  BY <1>1 DEF SortInv, Shape
<1>3. Shape'
  BY <1>1, <1>2 DEF Shape
<1>4. CacheInv'
  <2>1. \A q : RowsUpTo(q, taken[q])' = RowsUpTo(q, taken[q])
    BY <1>1 DEF RowsUpTo
  <2> QED BY <1>1, <1>2, <2>1 DEF CacheInv, Lists
<1>5. RunInv'
  <2>1. \A q : IsRun(sort_data[q], q)' = IsRun(sort_data[q], q)
    BY <1>1, SameInput DEF IsRun, InOrder
  <2> QED BY <1>1, <1>2, <2>1 DEF RunInv
<1>6. \A p \in Pipelines : /\ Rows(p)' = Rows(p) /\ local_cache[p].rows = Rows(p)
                           /\ RunSize(p) = Len(Rows(p)) /\ Len(Rows(p)) \in Nat
                           /\ DOMAIN Rows(p) = 1 .. Len(Rows(p)) /\ slice_idx'[p] = 1
  <2>1. \A p \in Pipelines : Rows(p)' = Rows(p)
    BY <1>1 DEF Rows
  <2> QED BY <1>1, <1>2, <2>1, RunFacts
<1>7. HeapInv'
  <2>1. ASSUME NEW e \in minHeap'
        PROVE  /\ e.sequence_index \in Pipelines
               /\ slice_idx'[e.sequence_index] \in DOMAIN Rows(e.sequence_index)
               /\ e = [row |-> Rows(e.sequence_index)[slice_idx'[e.sequence_index]],
                       sequence_index |-> e.sequence_index]
    <3>1. PICK p \in runs : e = [row |-> local_cache[p].rows[1], sequence_index |-> p]
      BY <1>1, <2>1
    <3>2. e.sequence_index = p /\ p \in Pipelines /\ slice_idx'[p] = 1 /\ 1 \in DOMAIN Rows(p)
      BY <1>6, <3>1
    <3> QED BY <1>6, <3>1, <3>2
  <2>2. task' = "ended" => minHeap' = {}
    BY <1>1
  <2>3. \A e \in minHeap' : Rows(e.sequence_index)' = Rows(e.sequence_index)
    BY <1>1 DEF Rows
  <2> QED BY <2>1, <2>2, <2>3 DEF HeapInv
<1>8. ResultInv'
  <2>1. ASSUME NEW p \in Pipelines, NEW i \in DOMAIN Rows(p)
        PROVE  ~Merged(p, i)'
    <3>1. p \in runs /\ i >= 1 /\ i \in Nat
      BY <1>6
    <3> DEFINE f == [row |-> local_cache[p].rows[1], sequence_index |-> p]
    <3>2. f \in minHeap' /\ f.sequence_index = p
      BY <1>1, <3>1
    <3> QED BY <1>6, <3>1, <3>2 DEF Merged, InHeap
  <2>2. global_sort_data' = <<>> /\ Range(global_sort_data') = {} /\ IsInjective(global_sort_data')
    BY <1>1, <1>2 DEF Range, IsInjective
  <2> QED BY <1>6, <2>1, <2>2 DEF ResultInv, Range
<1>9. OrderInv'
  BY <1>1, <1>2 DEF OrderInv, InOrder
<1> QED BY <1>3, <1>4, <1>5, <1>7, <1>8, <1>9 DEF SortInv

\* A round of the loop merges the row of one element, the first of its run.
LEMMA RoundFacts ==
  ASSUME SortInv, MergeStep
  PROVE  /\ task = "merging" /\ Shape /\ RunInv /\ HeapInv /\ ResultInv /\ OrderInv
         /\ \A p \in Pipelines : phase[p] = "published" /\ Rows(p)' = Rows(p)
         /\ \E e \in minHeap :
              LET p == e.sequence_index
                  s == slice_idx[p]
              IN
              /\ IsTop(e) /\ p \in Pipelines /\ s \in DOMAIN Rows(p)
              /\ e.row = Rows(p)[s] /\ InHeap(p)
              /\ global_sort_data' = Append(global_sort_data, Rows(p)[s])
              /\ HeapInv' /\ slice_idx' \in [Pipelines -> Nat \ {0}]
              /\ \A q \in Pipelines : \A i \in DOMAIN Rows(q) :
                   Merged(q, i)' <=> Merged(q, i) \/ (q = p /\ i = s)
<1>1. /\ task = "merging" /\ Shape /\ RunInv /\ HeapInv /\ ResultInv /\ OrderInv
      /\ UNCHANGED <<input, phase, taken, order_cache, sort_data>>
  BY DEF SortInv, MergeStep
<1>2. \A p \in Pipelines : phase[p] = "published" /\ Rows(p)' = Rows(p)
  BY <1>1 DEF Shape, Rows
<1>3. PICK e \in minHeap :
        LET p    == e.sequence_index
            next == {[row |-> local_cache[p].rows[i], sequence_index |-> p] :
                       i \in NextOfRun(p)}
        IN
        /\ IsTop(e)
        /\ global_sort_data' = Append(global_sort_data, e.row)
        /\ minHeap' = (minHeap \ {e}) \cup next
        /\ slice_idx' = [slice_idx EXCEPT ![p] = IF next = {} THEN @ ELSE @ + 1]
        /\ IF minHeap' = {}
           THEN task' = "ended" /\ local_cache' = [q \in Pipelines |-> NoRun]
           ELSE UNCHANGED <<task, local_cache>>
  BY DEF MergeStep
<1> DEFINE p == e.sequence_index
           s == slice_idx[p]
           f == [row |-> Rows(p)[s + 1], sequence_index |-> p]
<1>4. /\ p \in Pipelines /\ s \in DOMAIN Rows(p) /\ e.row = Rows(p)[s] /\ InHeap(p)
      /\ \A x \in minHeap : x.sequence_index = p => x = e
  BY <1>1 DEF HeapInv, InHeap
<1>5. /\ local_cache[p].rows = Rows(p) /\ RunSize(p) = Len(Rows(p)) /\ Len(Rows(p)) \in Nat
      /\ DOMAIN Rows(p) = 1 .. Len(Rows(p)) /\ s \in Nat \ {0}
      /\ slice_idx \in [Pipelines -> Nat \ {0}]
  BY <1>1, <1>2, <1>4, RunFacts DEF Shape
<1>6. NextOfRun(p) = IF s < Len(Rows(p)) THEN {s + 1} ELSE {}
  BY <1>5 DEF NextOfRun
<1>7. /\ s < Len(Rows(p)) => /\ minHeap' = (minHeap \ {e}) \cup {f}
                             /\ slice_idx' = [slice_idx EXCEPT ![p] = s + 1]
      /\ ~(s < Len(Rows(p))) => /\ minHeap' = minHeap \ {e}
                                /\ slice_idx' = [slice_idx EXCEPT ![p] = s]
  <2> DEFINE next == {[row |-> local_cache[p].rows[i], sequence_index |-> p] : i \in NextOfRun(p)}
  <2>1. /\ minHeap' = (minHeap \ {e}) \cup next
        /\ slice_idx' = [slice_idx EXCEPT ![p] = IF next = {} THEN s ELSE s + 1]
    BY <1>3
  <2>2. s < Len(Rows(p)) => next = {f}
    BY <1>5, <1>6
  <2>3. ~(s < Len(Rows(p))) => next = {}
    BY <1>6
  <2> HIDE DEF next, f, s, p
  <2> QED BY <2>1, <2>2, <2>3
<1>8. /\ slice_idx' \in [Pipelines -> Nat \ {0}]
      /\ \A q \in Pipelines : q # p => slice_idx'[q] = slice_idx[q]
      /\ slice_idx'[p] = IF s < Len(Rows(p)) THEN s + 1 ELSE s
  <2>1. s + 1 \in Nat \ {0}
    BY <1>5
  <2> QED BY <1>4, <1>5, <1>7, <2>1
<1>9. \A q \in Pipelines : q # p => (InHeap(q)' <=> InHeap(q))
  <2> SUFFICES ASSUME NEW q \in Pipelines, q # p PROVE InHeap(q)' <=> InHeap(q)
    OBVIOUS
  <2>1. \A x : x.sequence_index = q => (x \in minHeap' <=> x \in minHeap)
    BY <1>7
  <2> QED BY <2>1 DEF InHeap
<1>10. InHeap(p)' <=> s < Len(Rows(p))
  <2>1. CASE s < Len(Rows(p))
    <3>1. f \in minHeap' /\ f.sequence_index = p
      BY <1>7, <2>1
    <3> QED BY <2>1, <3>1 DEF InHeap
  <2>2. CASE ~(s < Len(Rows(p)))
    BY <1>4, <1>7, <2>2 DEF InHeap
  <2> QED BY <2>1, <2>2
<1>11. ASSUME NEW q \in Pipelines, NEW i \in DOMAIN Rows(q)
       PROVE  Merged(q, i)' <=> Merged(q, i) \/ (q = p /\ i = s)
  <2>1. CASE q # p
    BY <1>8, <1>9, <2>1 DEF Merged
  <2>2. CASE q = p
    <3>1. i \in Nat /\ i <= Len(Rows(p)) /\ (Merged(p, i) <=> i < s)
      BY <1>4, <1>5, <2>2 DEF Merged
    <3>2. CASE s < Len(Rows(p))
      <4>1. Merged(p, i)' <=> i < s + 1
        BY <1>8, <1>10, <3>2 DEF Merged
      <4> QED BY <1>5, <2>2, <3>1, <4>1
    <3>3. CASE ~(s < Len(Rows(p)))
      <4>1. Merged(p, i)'
        BY <1>10, <3>3 DEF Merged
      <4> QED BY <1>5, <2>2, <3>1, <3>3, <4>1
    <3> QED BY <3>2, <3>3
  <2> QED BY <2>1, <2>2
<1>12. HeapInv'
  <2>1. ASSUME NEW x \in minHeap'
        PROVE  /\ x.sequence_index \in Pipelines
               /\ slice_idx'[x.sequence_index] \in DOMAIN Rows(x.sequence_index)
               /\ x = [row |-> Rows(x.sequence_index)[slice_idx'[x.sequence_index]],
                       sequence_index |-> x.sequence_index]
    <3>1. CASE x \in minHeap /\ x # e
      <4>1. x.sequence_index \in Pipelines /\ x.sequence_index # p
        BY <1>1, <1>4, <3>1 DEF HeapInv
      <4> QED BY <1>1, <1>8, <3>1, <4>1 DEF HeapInv
    <3>2. CASE s < Len(Rows(p)) /\ x = f
      <4>1. s + 1 \in DOMAIN Rows(p)
        BY <1>5, <3>2
      <4> QED BY <1>4, <1>8, <3>2, <4>1
    <3> QED BY <1>7, <2>1, <3>1, <3>2
  <2>2. task' = "ended" => minHeap' = {}
    BY <1>1, <1>3
  <2>3. \A q : Rows(q)' = Rows(q)
    BY <1>1 DEF Rows
  <2> QED BY <2>1, <2>2, <2>3 DEF HeapInv
<1>13. global_sort_data' = Append(global_sort_data, Rows(p)[s]) /\ IsTop(e)
  BY <1>3, <1>4
<1> QED BY <1>1, <1>2, <1>4, <1>8, <1>11, <1>12, <1>13

LEMMA AppendFacts ==
  ASSUME NEW S, NEW g \in Seq(S), NEW x \in S
  PROVE  LET h == Append(g, x)
             n == Len(g) + 1
         IN
         /\ h \in Seq(S) /\ n \in Nat /\ DOMAIN h = DOMAIN g \cup {n} /\ n \notin DOMAIN g
         /\ DOMAIN g = 1 .. Len(g) /\ h[n] = x
         /\ \A i \in DOMAIN g : h[i] = g[i] /\ i \in Nat /\ i < n
         /\ Range(h) = Range(g) \cup {x}
<1> DEFINE h == Append(g, x)
           n == Len(g) + 1
<1>1. /\ h \in Seq(S) /\ n \in Nat /\ DOMAIN h = 1 .. n /\ DOMAIN g = 1 .. Len(g)
      /\ h[n] = x /\ \A i \in DOMAIN g : h[i] = g[i] /\ i \in Nat /\ i < n
  OBVIOUS
<1>2. DOMAIN h = DOMAIN g \cup {n} /\ n \notin DOMAIN g
  BY <1>1
<1> HIDE DEF h, n
<1>3. Range(h) = Range(g) \cup {x}
  BY <1>1, <1>2, SMTT(30) DEF Range
<1> QED BY <1>1, <1>2, <1>3 DEF h, n

LEMMA MergeStepKeepsInv ==
  ASSUME SortInv, MergeStep
  PROVE  SortInv'
<1>1. /\ task = "merging" /\ Shape /\ RunInv /\ HeapInv /\ ResultInv /\ OrderInv
      /\ \A p \in Pipelines : phase[p] = "published" /\ Rows(p)' = Rows(p)
  BY RoundFacts
<1>2. PICK e \in minHeap :
        LET p == e.sequence_index
            s == slice_idx[p]
        IN
        /\ IsTop(e) /\ p \in Pipelines /\ s \in DOMAIN Rows(p)
        /\ e.row = Rows(p)[s] /\ InHeap(p)
        /\ global_sort_data' = Append(global_sort_data, Rows(p)[s])
        /\ HeapInv' /\ slice_idx' \in [Pipelines -> Nat \ {0}]
        /\ \A q \in Pipelines : \A i \in DOMAIN Rows(q) :
             Merged(q, i)' <=> Merged(q, i) \/ (q = p /\ i = s)
  BY RoundFacts
<1>3. PICK p \in Pipelines : p = e.sequence_index
  BY <1>2
<1>4. PICK s \in DOMAIN Rows(p) : s = slice_idx[p]
  BY <1>2, <1>3
<1>5. PICK x : x = Rows(p)[s]
  OBVIOUS
<1>6. /\ UNCHANGED <<input, phase, taken, order_cache, sort_data>>
      /\ \/ task' = "ended" /\ local_cache' = [q \in Pipelines |-> NoRun]
         \/ UNCHANGED <<task, local_cache>>
  BY DEF MergeStep
<1>7. Shape'
  BY <1>1, <1>2, <1>6 DEF Shape
<1>8. CacheInv'
  BY <1>1, <1>6 DEF CacheInv
<1>9. RunInv'
  <2>1. \A q : IsRun(sort_data[q], q)' = IsRun(sort_data[q], q)
    BY <1>6, SameInput DEF IsRun, InOrder
  <2> QED BY <1>1, <1>6, <2>1 DEF RunInv
<1>10. /\ \A q \in Pipelines : \A i \in DOMAIN Rows(q) : Rows(q)[i] \in Given
       /\ x \in Given /\ ~Merged(p, s) /\ e.row = x /\ IsTop(e)
       /\ \A q \in Pipelines : \A i \in DOMAIN Rows(q) :
            Merged(q, i)' <=> Merged(q, i) \/ (q = p /\ i = s)
  <2>1. \A q \in Pipelines : \A i \in DOMAIN Rows(q) : Rows(q)[i] \in Given
    BY <1>1, RunFacts
  <2>2. ~(s < slice_idx[p])
    BY <1>1, <1>4 DEF Shape
  <2> QED BY <1>2, <1>3, <1>4, <1>5, <2>1, <2>2 DEF Merged
<1> DEFINE g == global_sort_data
           h == global_sort_data'
           n == Len(g) + 1
<1>11. /\ g \in Seq(Given) /\ IsInjective(g)
       /\ \A q \in Pipelines : \A i \in DOMAIN Rows(q) : Rows(q)[i] \in Range(g) <=> Merged(q, i)
  BY <1>1 DEF ResultInv
<1>12. h = Append(g, x)
  BY <1>2, <1>3, <1>4, <1>5
<1>13. /\ h \in Seq(Given) /\ n \in Nat /\ DOMAIN h = DOMAIN g \cup {n} /\ n \notin DOMAIN g
       /\ h[n] = x /\ \A i \in DOMAIN g : h[i] = g[i] /\ i \in Nat /\ i < n
       /\ Range(h) = Range(g) \cup {x}
  BY <1>10, <1>11, <1>12, AppendFacts
<1>14. x \notin Range(g)
  BY <1>5, <1>10, <1>11
<1>15. ResultInv'
  <2>1. IsInjective(h)
    <3> HIDE DEF g, h, n
    <3>1. \A i \in DOMAIN g : g[i] # x
      BY <1>14 DEF Range
    <3> QED BY <1>11, <1>13, <3>1 DEF IsInjective
  <2>2. ASSUME NEW q \in Pipelines, NEW i \in DOMAIN Rows(q)
        PROVE  Rows(q)[i] \in Range(h) <=> Merged(q, i)'
    <3>1. Rows(q)[i] = x <=> q = p /\ i = s
      BY <1>1, <1>5, RowsDiffer
    <3> QED BY <1>10, <1>11, <1>13, <3>1
  <2>3. Given' = Given
    BY <1>6, SameInput
  <2>4. \A q \in Pipelines : \A i \in DOMAIN Rows(q) :
          (Rows(q)[i] \in Range(global_sort_data))' <=> Rows(q)[i] \in Range(h)
    BY <1>1 DEF Range
  <2>5. IsInjective(global_sort_data)'
    BY <2>1 DEF IsInjective
  <2> QED BY <1>1, <1>13, <2>2, <2>3, <2>4, <2>5 DEF ResultInv
<1>16. OrderInv'
  <2>1. SUFFICES ASSUME NoNullKeys
                 PROVE  /\ \A i, j \in DOMAIN h : i < j => ~RecordBatchComparator(h[i], h[j])
                        /\ \A i \in DOMAIN h : \A q \in Pipelines : \A k \in DOMAIN Rows(q) :
                             ~Merged(q, k)' => ~RecordBatchComparator(h[i], Rows(q)[k])
    <3>1. NoNullKeys' = NoNullKeys
      BY <1>6, SameInput
    <3>2. \A i, j : RecordBatchComparator(global_sort_data[i], global_sort_data[j])'
                    = RecordBatchComparator(h[i], h[j])
      BY <1>6 DEF RecordBatchComparator, Keys
    <3>3. \A i : \A q \in Pipelines : \A k \in DOMAIN Rows(q) :
            RecordBatchComparator(global_sort_data[i], Rows(q)[k])'
            = RecordBatchComparator(h[i], Rows(q)[k])
      BY <1>1, <1>6 DEF RecordBatchComparator, Keys
    <3> QED BY <1>1, <3>1, <3>2, <3>3 DEF OrderInv, InOrder
  <2>2. /\ \A i, j \in DOMAIN g : i < j => ~RecordBatchComparator(g[i], g[j])
        /\ \A i \in DOMAIN g : \A q \in Pipelines : \A k \in DOMAIN Rows(q) :
             ~Merged(q, k) => ~RecordBatchComparator(g[i], Rows(q)[k])
    BY <1>1, <2>1 DEF OrderInv, InOrder
  <2>3. \A i \in DOMAIN g : ~RecordBatchComparator(g[i], x)
    BY <1>5, <1>10, <2>2
  <2>4. ASSUME NEW q \in Pipelines, NEW k \in DOMAIN Rows(q), ~Merged(q, k)
        PROVE  ~RecordBatchComparator(x, Rows(q)[k])
    <3>1. InHeap(q) /\ ~(k < slice_idx[q]) /\ k \in Nat /\ slice_idx[q] \in Nat
      BY <1>1, <2>4, RunFacts DEF Merged, Shape
    <3>2. PICK f \in minHeap : f.sequence_index = q
      BY <3>1 DEF InHeap
    <3>3. slice_idx[q] \in DOMAIN Rows(q) /\ f.row = Rows(q)[slice_idx[q]]
      BY <1>1, <3>2 DEF HeapInv
    <3>4. ~RecordBatchComparator(x, Rows(q)[slice_idx[q]])
      BY <1>10, <3>2, <3>3 DEF IsTop
    <3>5. CASE k = slice_idx[q]
      BY <3>4, <3>5
    <3>6. CASE slice_idx[q] < k
      <4>1. ~RecordBatchComparator(Rows(q)[slice_idx[q]], Rows(q)[k])
        BY <1>1, <2>1, <3>3, <3>6, RunFacts DEF InOrder
      <4> QED BY <1>1, <1>10, <3>3, <3>4, <4>1, NotAfterTransitive DEF Shape
    <3> QED BY <3>1, <3>5, <3>6
  <2>5. \A i, j \in DOMAIN h : i < j => ~RecordBatchComparator(h[i], h[j])
    <3> HIDE DEF g, h, n
    <3> SUFFICES ASSUME NEW i \in DOMAIN h, NEW j \in DOMAIN h, i < j
                 PROVE  ~RecordBatchComparator(h[i], h[j])
      OBVIOUS
    <3>1. i \in DOMAIN g
      BY <1>13
    <3>2. CASE j \in DOMAIN g
      BY <1>13, <2>2, <3>1, <3>2
    <3>3. CASE j = n
      BY <1>13, <2>3, <3>1, <3>3
    <3> QED BY <1>13, <3>2, <3>3
  <2>6. ASSUME NEW i \in DOMAIN h, NEW q \in Pipelines, NEW k \in DOMAIN Rows(q), ~Merged(q, k)'
        PROVE  ~RecordBatchComparator(h[i], Rows(q)[k])
    <3>1. ~Merged(q, k)
      BY <1>10, <2>6
    <3> HIDE DEF g, h, n
    <3>2. CASE i \in DOMAIN g
      BY <1>13, <2>2, <3>1, <3>2
    <3>3. CASE i = n
      BY <1>13, <2>4, <3>1, <3>3
    <3> QED BY <1>13, <3>2, <3>3
  <2> QED BY <2>5, <2>6
<1> QED BY <1>2, <1>7, <1>8, <1>9, <1>15, <1>16 DEF SortInv

-----------------------------------------------------------------------------
(* The invariant and what follows from it *)

\* Runs are sorted lists of their pipelines' rows, and the heap holds the first
\* row of each that is not merged.
THEOREM SortInvHolds == Spec => []SortInv
<1>1. SortInv /\ [Next]_vars => SortInv'
  <2> SUFFICES ASSUME SortInv, [Next]_vars PROVE SortInv'
    OBVIOUS
  <2>1. ASSUME NEW p \in Pipelines, Sink(p) \/ FinalChunk(p) \/ Publish(p) PROVE SortInv'
    BY <2>1, SinkKeepsInv, FinalChunkKeepsInv, PublishKeepsInv
  <2>2. CASE StartMerge
    BY <2>2, StartMergeKeepsInv
  <2>3. CASE MergeStep
    BY <2>3, MergeStepKeepsInv
  <2>4. CASE UNCHANGED vars
    <3> USE <2>4 DEF vars
    <3>1. Shape' = Shape
      BY DEF Shape
    <3>2. CacheInv' = CacheInv
      BY DEF CacheInv, RowsUpTo, Lists
    <3>3. RunInv' = RunInv
      BY DEF RunInv, IsRun, InOrder, NoNullKeys, Given, Keys, RecordBatchComparator
    <3>4. HeapInv' = HeapInv
      BY DEF HeapInv, Rows
    <3>5. ResultInv' = ResultInv
      BY DEF ResultInv, Rows, Merged, InHeap, Given
    <3>6. OrderInv' = OrderInv
      BY DEF OrderInv, InOrder, NoNullKeys, Given, Keys, RecordBatchComparator, Rows, Merged,
             InHeap
    <3> QED BY <3>1, <3>2, <3>3, <3>4, <3>5, <3>6 DEF SortInv
  <2> QED BY <2>1, <2>2, <2>3, <2>4 DEF Next
<1> QED BY <1>1, InitSortInv, PTL DEF Spec

(***************************************************************************)
(* The heap merge of MergeRecordBatch gives the rows out in the order of   *)
(* the sort keys, over any number of runs, and never puts a row out while  *)
(* one that belongs before it is still to come.                            *)
(***************************************************************************)
THEOREM MergeIsInOrder == Spec => []MergedInOrder
<1>1. SortInv => MergedInOrder
  <2> SUFFICES ASSUME SortInv, NoNullKeys
               PROVE  /\ InOrder(global_sort_data)
                      /\ \A i \in DOMAIN global_sort_data : \A row \in Given :
                           row \in Range(global_sort_data)
                             \/ ~RecordBatchComparator(global_sort_data[i], row)
    BY DEF MergedInOrder, InOrder
  <2>1. CASE task = "waiting"
    BY <2>1 DEF SortInv, Shape, InOrder
  <2>2. CASE task # "waiting"
    <3>1. /\ Shape /\ RunInv /\ ResultInv /\ OrderInv
          /\ \A p \in Pipelines : phase[p] = "published"
      BY <2>2 DEF SortInv, Shape
    <3>2. ASSUME NEW i \in DOMAIN global_sort_data, NEW row \in Given,
                 row \notin Range(global_sort_data)
          PROVE  ~RecordBatchComparator(global_sort_data[i], row)
      <4>1. PICK p \in Pipelines : row \in RowsOf(input, p)
        BY DEF Given, RowsGiven
      <4>2. PICK k \in DOMAIN Rows(p) : row = Rows(p)[k]
        BY <3>1, <4>1, RunFacts DEF Range
      <4>3. ~Merged(p, k)
        BY <3>1, <3>2, <4>2 DEF ResultInv
      <4> QED BY <3>1, <4>2, <4>3 DEF OrderInv
    <3> QED BY <3>1, <3>2 DEF OrderInv
  <2> QED BY <2>1, <2>2
<1> QED BY <1>1, SortInvHolds, PTL

(***************************************************************************)
(* What ORDER BY returns is what its pipelines were given: no row is lost  *)
(* at a chunk boundary, in a run or in the heap, and none comes twice.     *)
(***************************************************************************)
THEOREM ResultIsRearranged == Spec => []Rearranged
<1>1. SortInv => Rearranged
  <2> SUFFICES ASSUME SortInv, task = "ended"
               PROVE  IsInjective(global_sort_data) /\ Range(global_sort_data) = Given
    BY DEF Rearranged
  <2>1. /\ Shape /\ RunInv /\ HeapInv /\ ResultInv
        /\ \A p \in Pipelines : phase[p] = "published"
    BY DEF SortInv, Shape
  <2>2. minHeap = {}
    BY <2>1 DEF HeapInv
  <2>3. ASSUME NEW row \in Given PROVE row \in Range(global_sort_data)
    <3>1. PICK p \in Pipelines : row \in RowsOf(input, p)
      BY DEF Given, RowsGiven
    <3>2. PICK k \in DOMAIN Rows(p) : row = Rows(p)[k]
      BY <2>1, <3>1, RunFacts DEF Range
    <3> QED BY <2>1, <2>2, <3>2 DEF ResultInv, Merged, InHeap
  <2>4. Range(global_sort_data) \subseteq Given
    BY <2>1 DEF ResultInv, Range
  <2> QED BY <2>1, <2>3, <2>4 DEF ResultInv
<1> QED BY <1>1, SortInvHolds, PTL
=============================================================================
