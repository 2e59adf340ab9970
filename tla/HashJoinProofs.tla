--------------------------- MODULE HashJoinProofs ---------------------------
(***************************************************************************)
(* For any hash width, number of buckets and of pipelines, and any rows in *)
(* any chunks: the tag of a bucket never hides an entry from a probe, and  *)
(* what inner, semi and anti joins return is exactly the join.             *)
(***************************************************************************)
EXTENDS HashJoin, FiniteSetTheorems, WellFoundedInduction, TLAPS

\* Tables are functions from pipelines and buckets, as Build updates them.
Shape ==
  /\ buckets = [p \in Pipelines |-> [b \in BucketIds |-> buckets[p][b]]]
  /\ tagged_info_or =
       [p \in Pipelines |-> [b \in BucketIds |-> tagged_info_or[p][b]]]

TagInv == Shape /\ TagsCoverEntries

\* A table that a chunk does not touch keeps what TagsCoverEntries says of it.
LEMMA UntouchedKeepsTags ==
  ASSUME TagInv, UNCHANGED <<input, buckets, tagged_info_or>>
  PROVE  TagInv'
<1>1. Shape'
  BY DEF TagInv, Shape
<1>2. TagsCoverEntries'
  BY DEF TagInv, TagsCoverEntries, join_keys, comparison_types
<1> QED
  BY <1>1, <1>2 DEF TagInv

\* What InsertEntry does to one bucket, for all rows of a chunk.
LEMMA InsertKeepsTags ==
  ASSUME NEW p \in Pipelines, TagInv, Build(p)
  PROVE  TagInv'
<1> DEFINE rows == input.build[p][built[p] + 1]
<1>1. /\ input' = input
      /\ \A q \in Pipelines, b \in BucketIds :
           /\ buckets'[q][b] = IF q = p THEN buckets[q][b] \cup InBucket(rows, b)
                               ELSE buckets[q][b]
           /\ tagged_info_or'[q][b] =
                IF q = p THEN tagged_info_or[q][b]
                              \cup UNION {e.hash : e \in InBucket(rows, b)}
                ELSE tagged_info_or[q][b]
  BY DEF TagInv, Shape, Build
<1>2. Shape'
  BY DEF TagInv, Shape, Build
<1>3. ASSUME NEW q \in Pipelines, NEW b \in BucketIds, NEW e \in buckets'[q][b]
      PROVE  /\ Bucket(e.hash) = b
             /\ e.hash = Hash(join_keys(e.key))
             /\ ~FilteredOut(e.hash, tagged_info_or'[q][b])
  <2>1. CASE e \in buckets[q][b]
    <3>1. /\ Bucket(e.hash) = b
          /\ e.hash = Hash(join_keys(e.key))
          /\ e.hash \cup tagged_info_or[q][b] = tagged_info_or[q][b]
      BY <2>1 DEF TagInv, TagsCoverEntries, FilteredOut
    <3>2. tagged_info_or[q][b] \subseteq tagged_info_or'[q][b]
      BY <1>1
    <3> QED
      BY <3>1, <3>2 DEF FilteredOut
  <2>2. CASE q = p /\ e \in InBucket(rows, b)
    <3>1. Bucket(e.hash) = b /\ e \in Entries(rows)
      BY <2>2 DEF InBucket
    <3>2. e.hash = Hash(join_keys(e.key))
      BY <3>1 DEF Entries, Entry
    <3>3. e.hash \in {x.hash : x \in InBucket(rows, b)}
      BY <2>2
    <3>4. tagged_info_or'[q][b] =
            tagged_info_or[q][b] \cup UNION {x.hash : x \in InBucket(rows, b)}
      BY <1>1, <2>2
    <3>5. e.hash \subseteq tagged_info_or'[q][b]
      BY <3>3, <3>4
    <3> QED
      BY <3>1, <3>2, <3>5 DEF FilteredOut
  <2> QED
    BY <1>1, <1>3, <2>1, <2>2
<1>4. TagsCoverEntries'
  BY <1>1, <1>3 DEF TagsCoverEntries, join_keys, comparison_types
<1> QED
  BY <1>2, <1>4 DEF TagInv

(***************************************************************************)
(* The filter of GatherData, GatherSemiData and GatherAntiData lets every  *)
(* key through that has its hash in the bucket: it only saves comparisons. *)
(***************************************************************************)
THEOREM TagFilterSafe == Spec => []TagsCoverEntries
<1>1. Init => TagInv
  BY DEF Init, TagInv, Shape, TagsCoverEntries
<1>2. TagInv /\ [Next]_vars => TagInv'
  <2> SUFFICES ASSUME TagInv, [Next]_vars PROVE TagInv'
    OBVIOUS
  <2>1. ASSUME NEW p \in Pipelines, Build(p) PROVE TagInv'
    BY <2>1, InsertKeepsTags
  <2>2. CASE UNCHANGED <<input, buckets, tagged_info_or>>
    BY <2>2, UntouchedKeepsTags
  <2> QED
    BY <2>1, <2>2 DEF Next, vars, tableVars, BuildDone, ProbeInner, ProbeSemi,
       ProbeAnti, ProbeAntiFails, ChunkDone, ProbeDone
<1>3. TagInv => TagsCoverEntries
  BY DEF TagInv
<1> QED
  BY <1>1, <1>2, <1>3, PTL DEF Spec

-----------------------------------------------------------------------------
(* What the tables hold, and what the result holds after each pass. *)

\* The table that pass j looks into, and the number of passes over a chunk.
TableOf(j) == IF input.is_copy THEN input.prober ELSE j
Passes == IF input.is_copy THEN 1 ELSE Parallelism

\* The rows of the first n chunks of pipeline p, and all of them.
RowsUpTo(p, n) ==
  UNION {{input.build[p][c][k] : k \in DOMAIN input.build[p][c]} : c \in 1 .. n}
RowsOf(p) == RowsUpTo(p, Len(input.build[p]))

\* The rows of table p that join with row r of chunk c.
Found(p, c, r) == {row \in RowsOf(p) : Partner(input.probe[c][r], row)}

\* The rows of chunk c that have met a partner in the first n passes.
Seen(c, n) ==
  {r \in DOMAIN input.probe[c] : \E j \in 0 .. n - 1 : Found(TableOf(j), c, r) # {}}

\* The build sides that pass j owes the result for row r of chunk c.
Due(c, j, r) ==
  CASE input.join_type = "INNER" -> {row.id : row \in Found(TableOf(j), c, r)}
    [] input.join_type = "SEMI"  ->
         {b \in {NoRow} : r \in Seen(c, j + 1) /\ r \notin Seen(c, j)}
    [] input.join_type = "ANTI"  ->
         {b \in {NoRow} : j = Passes - 1 /\ r \notin Seen(c, j + 1)}

Done(c, j) == c < chunk \/ (c = chunk /\ j < i)

ResultRow(c, j, b, r) == [chunk |-> c, pass |-> j, build |-> b, probe |-> r]

(* A table holds the entries of the rows it was given, each in its bucket. *)
TableInv ==
  \A p \in Pipelines :
    /\ built[p] \in 0 .. Len(input.build[p])
    /\ pc # "build" => built[p] = Len(input.build[p])
    /\ \A b \in BucketIds :
         buckets[p][b] = {e \in {Entry(row) : row \in RowsUpTo(p, built[p])} :
                            Bucket(e.hash) = b}
    /\ total_count[p] \in Nat
    /\ total_count[p] = 0 => RowsUpTo(p, built[p]) = {}

(* Where the probe is, and what it remembers of the passes before. *)
ProbeInv ==
  /\ chunk \in 1 .. Len(input.probe) + 1
  /\ i \in 0 .. Passes
  /\ i = 0 => last = NoBitmap /\ uniqueNumbers = {}
  /\ chunk <= Len(input.probe) /\ input.join_type = "SEMI" =>
       uniqueNumbers = Seen(chunk, i)
  /\ chunk <= Len(input.probe) /\ input.join_type = "ANTI" /\ TablesFilled =>
       IF last = NoBitmap THEN Seen(chunk, i) = {} ELSE last = Seen(chunk, i)

(* The result is what the passes that are done owe it, and nothing else. *)
ResultInv ==
  /\ \A x \in result :
       \E c \in DOMAIN input.probe, j \in 0 .. Passes - 1 : \E r \in DOMAIN input.probe[c] :
         \E b \in Due(c, j, r) : Done(c, j) /\ x = ResultRow(c, j, b, r)
  /\ \A c \in DOMAIN input.probe, j \in 0 .. Passes - 1 : \A r \in DOMAIN input.probe[c] :
       \A b \in Due(c, j, r) : Done(c, j) => ResultRow(c, j, b, r) \in result

Covered == ~LessThan /\ (input.join_type = "ANTI" => TablesFilled)

JoinInv ==
  /\ input \in Inputs
  /\ built = [p \in Pipelines |-> built[p]]
  /\ total_count = [p \in Pipelines |-> total_count[p]]
  /\ TagInv /\ TableInv
  /\ pc = "build" => /\ chunk = 1 /\ i = 0 /\ last = NoBitmap
                      /\ uniqueNumbers = {} /\ result = {}
  /\ pc # "build" /\ Covered => ProbeInv /\ ResultInv

-----------------------------------------------------------------------------
(* Facts about sets of numbers *)

\* A set of natural numbers that is not empty has a least member.
LEMMA LeastMember ==
  ASSUME NEW T \in SUBSET Nat, T # {}
  PROVE  \E m \in T : \A n \in T : m <= n
<1> DEFINE R == OpToRel(<, Nat)
<1>1. \E x \in T : \A y \in T : ~(<<y, x>> \in R)
  <2>1. IsWellFoundedOn(R, Nat)
    BY NatLessThanWellFounded
  <2> HIDE DEF R
  <2> QED BY <2>1, WFMin
<1>2. PICK m \in T : \A y \in T : ~(<<y, m>> \in R)
  BY <1>1
<1>3. ASSUME NEW n \in T PROVE m <= n
  <2>1. ~(<<n, m>> \in R)
    BY <1>2
  <2>2. ~(n < m)
    BY <2>1 DEF OpToRel
  <2> QED BY <2>2
<1> QED BY <1>3

\* Every place below the size of a finite set of numbers is some member's rank.
LEMMA RankOnto ==
  ASSUME NEW E \in SUBSET Int, IsFiniteSet(E), NEW n \in 1 .. Cardinality(E)
  PROVE  \E k \in E : Cardinality({l \in E : l < k}) = n - 1
<1> DEFINE C == Cardinality(E)
           Below(k) == {l \in E : l < k}
           rank == [k \in E |-> Cardinality(Below(k))]
<1>0. C \in Nat
  BY FS_CardinalityType
<1>1. ASSUME NEW k \in E
      PROVE  IsFiniteSet(Below(k)) /\ Cardinality(Below(k)) \in 0 .. C - 1
  <2>1. Below(k) \subseteq E \ {k}
    OBVIOUS
  <2>2. IsFiniteSet(E \ {k}) /\ Cardinality(E \ {k}) = C - 1
    BY FS_RemoveElement
  <2>3. IsFiniteSet(Below(k)) /\ Cardinality(Below(k)) <= Cardinality(E \ {k})
    <3> HIDE DEF Below
    <3> QED BY <2>1, <2>2, FS_Subset
  <2>4. Cardinality(Below(k)) \in Nat
    BY <2>3, FS_CardinalityType
  <2> HIDE DEF Below, C
  <2> QED BY <1>0, <2>2, <2>3, <2>4
<1>2. ASSUME NEW x \in E, NEW y \in E, x < y
      PROVE  Cardinality(Below(x)) # Cardinality(Below(y))
  <2>1. Below(x) \subseteq Below(y) /\ x \in Below(y) /\ x \notin Below(x)
    <3>1. x \in Int /\ y \in Int /\ \A l \in E : l \in Int
      OBVIOUS
    <3>2. ~(x < x) /\ \A l \in E : l < x => l < y
      BY <1>2, <3>1
    <3> QED BY <1>2, <3>2
  <2>2. Below(x) # Below(y)
    BY <2>1
  <2>3. IsFiniteSet(Below(y))
    BY <1>1
  <2> HIDE DEF Below
  <2> QED BY <2>1, <2>2, <2>3, FS_Subset
<1>3. SUFFICES ASSUME \A k \in E : Cardinality(Below(k)) # n - 1
               PROVE  FALSE
  OBVIOUS
<1> DEFINE T == (0 .. C - 1) \ {n - 1}
<1>4. IsFiniteSet(T) /\ Cardinality(T) < C
  <2>1. IsFiniteSet(0 .. C - 1) /\ Cardinality(0 .. C - 1) = C
    <3>1. 0 \in Int /\ C - 1 \in Int /\ C > 0
      BY <1>0
    <3>2. Cardinality(0 .. C - 1) = IF 0 > C - 1 THEN 0 ELSE C - 1 - 0 + 1
      BY <3>1, FS_Interval
    <3> HIDE DEF C
    <3> QED BY <1>0, <3>1, <3>2, FS_Interval
  <2>2. n - 1 \in 0 .. C - 1
    BY <1>0
  <2>3. IsFiniteSet(T) /\ Cardinality(T) = C - 1
    <3> DEFINE I == 0 .. C - 1  m == n - 1
    <3>1. IsFiniteSet(I) /\ Cardinality(I) = C /\ m \in I
      BY <2>1, <2>2
    <3> HIDE DEF I, m, C
    <3>2. IsFiniteSet(I \ {m}) /\ Cardinality(I \ {m}) = C - 1
      BY <3>1, FS_RemoveElement
    <3> QED BY <3>2 DEF I, m
  <2> HIDE DEF C
  <2> QED BY <1>0, <2>3
<1>5. rank \in [E -> T]
  BY <1>1, <1>3
<1>6. \E x, y \in E : x # y /\ rank[x] = rank[y]
  <2> HIDE DEF rank, T
  <2> QED BY <1>4, <1>5, FS_PigeonHole
<1>7. PICK x \in E, y \in E : x # y /\ Cardinality(Below(x)) = Cardinality(Below(y))
  BY <1>6
<1>8. x < y \/ y < x
  BY <1>7
<1> QED BY <1>2, <1>7, <1>8

-----------------------------------------------------------------------------
(* Hashes *)

\* Keys that agree in the columns compared for equality are hashed alike.
LEMMA HashedAlike ==
  ASSUME NEW types, NEW n \in Nat, NEW k \in [1 .. n -> Int], NEW l \in [1 .. n -> Int],
         \A m \in 1 .. n : (types = <<>> \/ types[m] = "EQUAL") => k[m] = l[m]
  PROVE  HashedColumns(types, k) = HashedColumns(types, l)
<1>1. CASE types = <<>>
  <2>1. k = l
    BY <1>1
  <2> QED BY <2>1
<1>2. CASE types # <<>>
  <2> DEFINE E == {m \in 1 .. n : types[m] = "EQUAL"}
             at(j) == CHOOSE m \in E : Cardinality({x \in E : x < m}) = j - 1
  <2>1. DOMAIN k = 1 .. n /\ DOMAIN l = 1 .. n
    OBVIOUS
  <2>2. /\ HashedColumns(types, k) = [j \in 1 .. Cardinality(E) |-> k[at(j)]]
        /\ HashedColumns(types, l) = [j \in 1 .. Cardinality(E) |-> l[at(j)]]
    BY <1>2, <2>1 DEF HashedColumns
  <2>3. IsFiniteSet(E) /\ E \in SUBSET Int
    <3>1. IsFiniteSet(1 .. n)
      BY FS_Interval
    <3> QED BY <3>1, FS_Subset
  <2>4. ASSUME NEW j \in 1 .. Cardinality(E) PROVE k[at(j)] = l[at(j)]
    <3>1. \E m \in E : Cardinality({x \in E : x < m}) = j - 1
      <4> HIDE DEF E
      <4> QED BY <2>3, RankOnto
    <3>2. at(j) \in E
      BY <3>1
    <3> QED BY <3>2
  <2> QED BY <2>2, <2>4
<1> QED BY <1>1, <1>2

-----------------------------------------------------------------------------
(* The rows and the keys *)

LEMMA ProbeFacts ==
  ASSUME input \in Inputs
  PROVE  /\ Len(input.probe) \in Nat
         /\ DOMAIN input.probe = 1 .. Len(input.probe)
         /\ \A c \in DOMAIN input.probe :
              /\ input.probe[c] \in Seq(Seq(Int))
              /\ DOMAIN input.probe[c] \subseteq Nat
              /\ \A r \in DOMAIN input.probe[c] : input.probe[c][r] \in Seq(Int)
         /\ input.is_copy \in BOOLEAN /\ input.prober \in Pipelines
         /\ input.join_type \in {"INNER", "SEMI", "ANTI"}
<1>1. input.probe \in Seq(Seq(Seq(Int)))
  BY InputAssumption
<1>2. \A c \in DOMAIN input.probe : input.probe[c] \in Seq(Seq(Int))
  BY <1>1
<1>3. /\ input.is_copy \in BOOLEAN /\ input.prober \in Pipelines
      /\ input.join_type \in {"INNER", "SEMI", "ANTI"}
  BY InputAssumption
<1> QED BY <1>1, <1>2, <1>3

LEMMA BuildFacts ==
  ASSUME input \in Inputs, NEW p \in Pipelines
  PROVE  /\ Len(input.build[p]) \in Nat
         /\ \A c \in 1 .. Len(input.build[p]) :
              /\ input.build[p][c] \in Seq(BuildRow)
              /\ Len(input.build[p][c]) \in Nat
              /\ DOMAIN input.build[p][c] = 1 .. Len(input.build[p][c])
<1>1. input.build \in [Pipelines -> Seq(Seq(BuildRow))]
  BY InputAssumption
<1>2. input.build[p] \in Seq(Seq(BuildRow))
  BY <1>1
<1>3. \A c \in 1 .. Len(input.build[p]) : input.build[p][c] \in Seq(BuildRow)
  BY <1>2
<1> QED BY <1>2, <1>3

LEMMA RowFacts ==
  ASSUME input \in Inputs, NEW p \in Pipelines, NEW row \in RowsOf(p)
  PROVE  /\ row \in BuildRow /\ row.key \in Seq(Int) /\ row.id[1] = p
         /\ \A c \in DOMAIN input.probe : \A r \in DOMAIN input.probe[c] :
              Len(row.key) = Len(input.probe[c][r])
<1>1. PICK c \in 1 .. Len(input.build[p]) :
        \E k \in DOMAIN input.build[p][c] : row = input.build[p][c][k]
  BY DEF RowsOf, RowsUpTo
<1>2. PICK k \in DOMAIN input.build[p][c] : row = input.build[p][c][k]
  BY <1>1
<1>3. input.build[p][c] \in Seq(BuildRow)
  BY <1>1, BuildFacts
<1>4. row \in BuildRow /\ row.key \in Seq(Int)
  <2>1. row \in BuildRow
    BY <1>2, <1>3
  <2> QED BY <2>1 DEF BuildRow
<1>5. c \in DOMAIN input.build[p]
  <2>1. input.build[p] \in Seq(Seq(BuildRow))
    BY InputAssumption
  <2> QED BY <1>1, <2>1
<1>6. row.id[1] = p
  BY <1>2, <1>5, InputAssumption
<1>7. \A d \in DOMAIN input.probe : \A r \in DOMAIN input.probe[d] :
        Len(row.key) = Len(input.probe[d][r])
  BY <1>2, <1>5, InputAssumption, SMTT(30)
<1> QED BY <1>4, <1>6, <1>7

\* A partner's key is hashed like the probe's, so it is in the same bucket.
LEMMA PartnersHashAlike ==
  ASSUME input \in Inputs, NEW p \in Pipelines, NEW row \in RowsOf(p),
         NEW c \in DOMAIN input.probe, NEW r \in DOMAIN input.probe[c],
         Partner(input.probe[c][r], row)
  PROVE  join_keys(input.probe[c][r]) = join_keys(row.key)
<1> DEFINE k == input.probe[c][r]  l == row.key  n == Len(row.key)
<1>1. k \in Seq(Int) /\ l \in Seq(Int) /\ Len(k) = n
  BY ProbeFacts, RowFacts
<1>2. n \in Nat /\ k \in [1 .. n -> Int] /\ l \in [1 .. n -> Int] /\ DOMAIN k = 1 .. n
  BY <1>1
<1>3. ASSUME NEW m \in 1 .. n, comparison_types = <<>> \/ comparison_types[m] = "EQUAL"
      PROVE  k[m] = l[m]
  <2>1. Means("EQUAL", k[m], l[m])
    BY <1>2, <1>3 DEF Partner
  <2> QED BY <2>1 DEF Means, Compare
<1> HIDE DEF k, l, n
<1>4. HashedColumns(comparison_types, k) = HashedColumns(comparison_types, l)
  BY <1>2, <1>3, HashedAlike
<1> QED BY <1>4 DEF join_keys, k, l

\* What Gather compares is what the comparison is named for.
LEMMA MatchesIsPartner ==
  ASSUME input \in Inputs, ~LessThan, NEW p \in Pipelines, NEW row \in RowsOf(p),
         NEW c \in DOMAIN input.probe, NEW r \in DOMAIN input.probe[c]
  PROVE  Matches(input.probe[c][r], Entry(row)) <=> Partner(input.probe[c][r], row)
<1> DEFINE k == input.probe[c][r]
<1>1. Entry(row).key = row.key
  BY DEF Entry
<1>2. CASE comparison_types = <<>>
  <2>1. join_keys(k) = k
    BY <1>2 DEF join_keys, HashedColumns
  <2>2. Matches(k, Entry(row)) <=> \A m \in DOMAIN k : k[m] = row.key[m]
    BY <1>1, <1>2, <2>1 DEF Matches
  <2>3. Partner(k, row) <=> \A m \in DOMAIN k : k[m] = row.key[m]
    BY <1>2 DEF Partner, Means, Compare
  <2> QED BY <2>2, <2>3
<1>3. CASE comparison_types # <<>>
  <2>1. input.join_type # "INNER" /\ comparison_types \in Seq(Comparisons)
        /\ Len(k) = Len(comparison_types)
    BY <1>3, InputAssumption DEF comparison_types
  <2>2. DOMAIN k = DOMAIN comparison_types
    BY <2>1, ProbeFacts
  <2>3. Matches(k, Entry(row)) <=>
          \A m \in DOMAIN k : Compare(comparison_types[m], k[m], row.key[m])
    BY <1>1, <1>3, <2>1 DEF Matches
  <2>4. \A m \in DOMAIN k : comparison_types[m] # "LESSTHAN"
    BY <2>2 DEF LessThan
  <2>5. Partner(k, row) <=>
          \A m \in DOMAIN k : Compare(comparison_types[m], k[m], row.key[m])
    BY <1>3, <2>4 DEF Partner, Means
  <2> QED BY <2>3, <2>5
<1> QED BY <1>2, <1>3

-----------------------------------------------------------------------------
(* A probe of a complete table *)

LEMMA GatherExact ==
  ASSUME JoinInv, ~LessThan, pc # "build", NEW p \in Pipelines,
         NEW c \in DOMAIN input.probe, NEW r \in DOMAIN input.probe[c]
  PROVE  Gather(p, input.probe[c][r]) = {Entry(row) : row \in Found(p, c, r)}
<1> DEFINE key == input.probe[c][r]
           hash == Hash(join_keys(key))
           b == Bucket(hash)
<1>0. input \in Inputs
  BY DEF JoinInv
<1>1. b \in BucketIds
  BY DEF Bucket, BucketIds
<1>2. buckets[p][b] = {e \in {Entry(row) : row \in RowsOf(p)} : Bucket(e.hash) = b}
  <2>1. built[p] = Len(input.build[p])
    BY DEF JoinInv, TableInv
  <2> QED BY <1>1, <2>1 DEF JoinInv, TableInv, RowsOf
<1>3. ASSUME NEW e \in Gather(p, key)
      PROVE  e \in {Entry(row) : row \in Found(p, c, r)}
  <2>1. e \in buckets[p][b] /\ Matches(key, e)
    BY <1>3 DEF Gather
  <2>2. PICK row \in RowsOf(p) : e = Entry(row)
    BY <1>2, <2>1
  <2>3. Partner(key, row)
    BY <1>0, <2>1, <2>2, MatchesIsPartner
  <2> QED BY <2>2, <2>3 DEF Found
<1>4. ASSUME NEW row \in Found(p, c, r)
      PROVE  Entry(row) \in Gather(p, key)
  <2>1. row \in RowsOf(p) /\ Partner(key, row)
    BY DEF Found
  <2>2. Entry(row).hash = hash
    BY <1>0, <2>1, PartnersHashAlike DEF Entry
  <2>3. Entry(row) \in buckets[p][b]
    BY <1>2, <2>1, <2>2
  <2>4. ~FilteredOut(hash, tagged_info_or[p][b])
    BY <1>1, <2>2, <2>3 DEF JoinInv, TagInv, TagsCoverEntries
  <2>5. Matches(key, Entry(row))
    BY <1>0, <2>1, MatchesIsPartner
  <2> QED BY <2>2, <2>3, <2>4, <2>5 DEF Gather
<1> QED BY <1>3, <1>4

\* The table that is probed next.
LEMMA TableFacts ==
  ASSUME input \in Inputs, i \in 0 .. Passes - 1
  PROVE  Table = TableOf(i) /\ Table \in Pipelines
<1>1. Table = TableOf(i)
  BY DEF Table, TableOf
<1>2. CASE input.is_copy
  BY <1>1, <1>2, ProbeFacts DEF Table
<1>3. CASE ~input.is_copy
  BY <1>1, <1>3 DEF Table, Passes, Pipelines
<1> QED BY <1>1, <1>2, <1>3

\* match_row_idx: the rows of the chunk that have a partner in this table.
LEMMA HitExact ==
  ASSUME JoinInv, ~LessThan, pc # "build", chunk \in DOMAIN input.probe,
         i \in 0 .. Passes - 1
  PROVE  Hit = {r \in DOMAIN input.probe[chunk] : Found(TableOf(i), chunk, r) # {}}
<1>0. input \in Inputs
  BY DEF JoinInv
<1>1. Table = TableOf(i) /\ Table \in Pipelines
  BY <1>0, TableFacts
<1>2. CASE total_count[Table] = 0
  <2>1. RowsOf(Table) = {}
    <3>1. built[Table] = Len(input.build[Table])
      BY <1>1 DEF JoinInv, TableInv
    <3> QED BY <1>1, <1>2, <3>1 DEF JoinInv, TableInv, RowsOf
  <2>2. \A r \in DOMAIN input.probe[chunk] : Found(TableOf(i), chunk, r) = {}
    BY <1>1, <2>1 DEF Found
  <2> QED BY <1>2, <2>2 DEF Hit
<1>3. CASE total_count[Table] # 0
  <2>1. \A r \in DOMAIN input.probe[chunk] :
          Gather(Table, data_chunk[r]) = {Entry(row) : row \in Found(Table, chunk, r)}
    BY <1>1, GatherExact DEF data_chunk
  <2>2. \A r \in DOMAIN input.probe[chunk] :
          Gather(Table, data_chunk[r]) # {} <=> Found(Table, chunk, r) # {}
    BY <2>1
  <2> QED BY <1>1, <1>3, <2>2 DEF Hit, data_chunk
<1> QED BY <1>2, <1>3

-----------------------------------------------------------------------------
(* What depends on the input alone *)

LEMMA InputKept ==
  ASSUME input' = input
  PROVE  /\ \A p, n : RowsUpTo(p, n)' = RowsUpTo(p, n)
         /\ \A p : RowsOf(p)' = RowsOf(p)
         /\ \A row : Entry(row)' = Entry(row)
         /\ \A p, c, r : Found(p, c, r)' = Found(p, c, r)
         /\ \A j : TableOf(j)' = TableOf(j)
         /\ Passes' = Passes
         /\ LessThan' = LessThan
<1>1. \A p, n : RowsUpTo(p, n)' = RowsUpTo(p, n)
  BY DEF RowsUpTo
<1>2. \A p : RowsOf(p)' = RowsOf(p)
  BY <1>1 DEF RowsOf, RowsUpTo
<1>3. \A row : Entry(row)' = Entry(row)
  BY DEF Entry, join_keys, comparison_types
<1>4. comparison_types' = comparison_types
  BY DEF comparison_types
<1>5. \A k, row : Partner(k, row)' <=> Partner(k, row)
  BY <1>4 DEF Partner
<1>6. \A p, c, r : Found(p, c, r)' = Found(p, c, r)
  BY <1>2, <1>5 DEF Found
<1>7. (\A j : TableOf(j)' = TableOf(j)) /\ Passes' = Passes
  BY DEF TableOf, Passes
<1>8. LessThan' = LessThan
  BY <1>4 DEF LessThan
<1> QED BY <1>1, <1>2, <1>3, <1>6, <1>7, <1>8

LEMMA DueKept ==
  ASSUME input' = input
  PROVE  /\ \A c, n : Seen(c, n)' = Seen(c, n)
         /\ \A c, j, r : Due(c, j, r)' = Due(c, j, r)
<1>1. \A c, n : Seen(c, n)' = Seen(c, n)
  BY InputKept DEF Seen
<1>2. \A c, j, r : Due(c, j, r)' = Due(c, j, r)
  BY <1>1, InputKept, ZenonT(40) DEF Due
<1> QED BY <1>1, <1>2

-----------------------------------------------------------------------------
(* The tables *)

LEMMA OneMoreChunk ==
  ASSUME input \in Inputs, NEW p \in Pipelines, NEW n \in Nat, n < Len(input.build[p])
  PROVE  RowsUpTo(p, n + 1) = RowsUpTo(p, n)
           \cup {input.build[p][n + 1][k] : k \in DOMAIN input.build[p][n + 1]}
<1> DEFINE C(c) == {input.build[p][c][k] : k \in DOMAIN input.build[p][c]}
<1>1. \A c : c \in 1 .. n + 1 <=> c \in 1 .. n \/ c = n + 1
  OBVIOUS
<1>2. RowsUpTo(p, n + 1) = UNION {C(c) : c \in 1 .. n + 1} /\
      RowsUpTo(p, n) = UNION {C(c) : c \in 1 .. n}
  BY DEF RowsUpTo
<1> HIDE DEF C
<1>3. UNION {C(c) : c \in 1 .. n + 1} = (UNION {C(c) : c \in 1 .. n}) \cup C(n + 1)
  BY <1>1
<1> QED BY <1>2, <1>3 DEF C

LEMMA BuildKeepsTables ==
  ASSUME JoinInv, NEW p \in Pipelines, Build(p)
  PROVE  TableInv'
<1> DEFINE n == built[p]
           rows == input.build[p][n + 1]
           new == {rows[k] : k \in DOMAIN rows}
<1>0. input \in Inputs /\ input' = input /\ pc = "build" /\ pc' = "build"
  BY DEF JoinInv, Build
<1>1. n \in Nat /\ n < Len(input.build[p]) /\ Len(input.build[p]) \in Nat
  BY <1>0, BuildFacts DEF JoinInv, TableInv, Build
<1>2. n + 1 \in 1 .. Len(input.build[p])
  BY <1>1
<1>3. Len(rows) \in Nat /\ DOMAIN rows = 1 .. Len(rows)
  BY <1>0, <1>2, BuildFacts
<1>4. RowsUpTo(p, n + 1) = RowsUpTo(p, n) \cup new
  BY <1>0, <1>1, OneMoreChunk
<1>5. /\ built'[p] = n + 1 /\ total_count'[p] = total_count[p] + Len(rows)
      /\ \A q \in Pipelines \ {p} : built'[q] = built[q] /\ total_count'[q] = total_count[q]
  BY DEF JoinInv, Build
<1>6. \A q \in Pipelines, b \in BucketIds :
        buckets'[q][b] = IF q = p THEN buckets[q][b] \cup InBucket(rows, b) ELSE buckets[q][b]
  BY DEF JoinInv, TagInv, Shape, Build
<1>7. \A b \in BucketIds : InBucket(rows, b) = {e \in {Entry(row) : row \in new} : Bucket(e.hash) = b}
  BY DEF InBucket, Entries
<1>8. ASSUME NEW q \in Pipelines
      PROVE  /\ built'[q] \in 0 .. Len(input.build[q])
             /\ total_count'[q] \in Nat
             /\ \A b \in BucketIds :
                  buckets'[q][b] = {e \in {Entry(row) : row \in RowsUpTo(q, built'[q])} :
                                      Bucket(e.hash) = b}
             /\ total_count'[q] = 0 => RowsUpTo(q, built'[q]) = {}
  <2>1. /\ built[q] \in 0 .. Len(input.build[q]) /\ total_count[q] \in Nat
        /\ \A b \in BucketIds :
             buckets[q][b] = {e \in {Entry(row) : row \in RowsUpTo(q, built[q])} :
                                Bucket(e.hash) = b}
        /\ total_count[q] = 0 => RowsUpTo(q, built[q]) = {}
    BY DEF JoinInv, TableInv
  <2>2. CASE q # p
    BY <1>5, <1>6, <2>1, <2>2
  <2>3. CASE q = p
    <3> HIDE DEF new, rows, n
    <3>1. built'[q] \in 0 .. Len(input.build[q]) /\ total_count'[q] \in Nat
      BY <1>1, <1>3, <1>5, <2>1, <2>3
    <3>2. RowsUpTo(q, built'[q]) = RowsUpTo(q, n) \cup new
      BY <1>4, <1>5, <2>3
    <3>3. \A b \in BucketIds :
            buckets[q][b] = {e \in {Entry(row) : row \in RowsUpTo(q, n)} : Bucket(e.hash) = b}
      BY <2>1, <2>3 DEF n
    <3>4. ASSUME NEW b \in BucketIds
          PROVE  buckets'[q][b] = {e \in {Entry(row) : row \in RowsUpTo(q, n) \cup new} :
                                     Bucket(e.hash) = b}
      <4>1. buckets'[q][b] = buckets[q][b] \cup InBucket(rows, b)
        BY <1>6, <2>3
      <4>2. {Entry(row) : row \in RowsUpTo(q, n) \cup new}
              = {Entry(row) : row \in RowsUpTo(q, n)} \cup {Entry(row) : row \in new}
        OBVIOUS
      <4> QED BY <1>7, <3>3, <4>1, <4>2
    <3>5. total_count'[q] = 0 => RowsUpTo(q, n) \cup new = {}
      <4> SUFFICES ASSUME total_count'[q] = 0 PROVE RowsUpTo(q, n) \cup new = {}
        OBVIOUS
      <4>1. total_count[q] = 0 /\ Len(rows) = 0
        BY <1>3, <1>5, <2>1, <2>3
      <4>2. DOMAIN rows = {}
        BY <1>3, <4>1
      <4>3. new = {}
        BY <4>2 DEF new
      <4> QED BY <2>1, <2>3, <4>1, <4>3 DEF n
    <3> QED BY <3>1, <3>2, <3>4, <3>5
  <2> QED BY <2>2, <2>3
<1>9. \A q \in Pipelines : RowsUpTo(q, built[q])' = RowsUpTo(q, built'[q])
  BY <1>0 DEF RowsUpTo
<1> QED BY <1>0, <1>8, <1>9, InputKept DEF TableInv

LEMMA ProbeKeepsTables ==
  ASSUME JoinInv, UNCHANGED <<input, built, buckets, tagged_info_or, total_count>>,
         pc = "build" /\ pc' # "build" =>
           \A p \in Pipelines : built[p] = Len(input.build[p])
  PROVE  TableInv'
<1>1. \A q \in Pipelines : RowsUpTo(q, built[q])' = RowsUpTo(q, built[q])
  BY DEF RowsUpTo
<1> QED BY <1>1, InputKept DEF JoinInv, TableInv

-----------------------------------------------------------------------------
(* A pass *)

LEMMA SeenNext ==
  ASSUME NEW c, NEW n \in Nat
  PROVE  Seen(c, n + 1) = Seen(c, n) \cup
           {r \in DOMAIN input.probe[c] : Found(TableOf(n), c, r) # {}}
<1>1. \A j : j \in 0 .. (n + 1) - 1 <=> j \in 0 .. n - 1 \/ j = n
  OBVIOUS
<1> QED BY <1>1, Zenon DEF Seen

\* What a pass knows of its place when it starts.
LEMMA PassFacts ==
  ASSUME JoinInv, Covered, NEW t, Probing(t)
  PROVE  /\ input \in Inputs /\ ~LessThan /\ pc # "build" /\ input.join_type = t
         /\ ProbeInv /\ ResultInv
         /\ chunk \in DOMAIN input.probe /\ chunk \in Nat
         /\ chunk <= Len(input.probe) /\ Len(input.probe) \in Nat
         /\ i \in 0 .. Passes - 1 /\ i \in Nat /\ Passes \in Nat
<1>1. input \in Inputs /\ pc = "probe" /\ ProbeInv /\ ResultInv /\ ~LessThan
      /\ input.join_type = t
  BY DEF JoinInv, Covered, Probing
<1>2. Passes \in Nat /\ i < Passes
  BY JoinAssumption DEF Passes, Probing
<1>3. i \in 0 .. Passes - 1 /\ i \in Nat
  BY <1>1, <1>2 DEF ProbeInv
<1>4. chunk <= Len(input.probe)
  BY DEF Probing
<1>5. chunk \in DOMAIN input.probe /\ chunk \in Nat
  BY <1>1, <1>4, ProbeFacts DEF ProbeInv
<1> QED BY <1>1, <1>2, <1>3, <1>4, <1>5, ProbeFacts

\* The pass adds what it owes, and nothing else.
Adds ==
  /\ result \subseteq result'
  /\ \A x \in result' : x \in result \/
       \E r \in DOMAIN input.probe[chunk] : \E b \in Due(chunk, i, r) :
         x = ResultRow(chunk, i, b, r)
  /\ \A r \in DOMAIN input.probe[chunk] : \A b \in Due(chunk, i, r) :
       ResultRow(chunk, i, b, r) \in result'

LEMMA InnerAdds ==
  ASSUME JoinInv, Covered, ProbeInner
  PROVE  Adds
<1>1. Probing("INNER")
  BY DEF ProbeInner
<1>2. /\ input \in Inputs /\ ~LessThan /\ pc # "build" /\ input.join_type = "INNER"
      /\ chunk \in DOMAIN input.probe /\ i \in 0 .. Passes - 1
  BY <1>1, PassFacts
<1>3. Table = TableOf(i) /\ Table \in Pipelines
  BY <1>2, TableFacts
<1>4. Hit = {r \in DOMAIN input.probe[chunk] : Found(TableOf(i), chunk, r) # {}}
  BY <1>2, HitExact
<1>5. \A r \in DOMAIN input.probe[chunk] :
        Gather(Table, data_chunk[r]) = {Entry(row) : row \in Found(TableOf(i), chunk, r)}
  BY <1>2, <1>3, GatherExact DEF data_chunk
<1>6. \A r \in DOMAIN input.probe[chunk] :
        Due(chunk, i, r) = {row.id : row \in Found(TableOf(i), chunk, r)}
  BY <1>2 DEF Due
<1>7. \A row : Entry(row).row = row.id
  BY DEF Entry
<1>8. \A r \in DOMAIN input.probe[chunk] :
        {Row(e.row, r) : e \in Gather(Table, data_chunk[r])} =
        {ResultRow(chunk, i, b, r) : b \in Due(chunk, i, r)}
  <2> TAKE r \in DOMAIN input.probe[chunk]
  <2> DEFINE F == Found(TableOf(i), chunk, r)
  <2>1. {Row(e.row, r) : e \in Gather(Table, data_chunk[r])} = {Row(row.id, r) : row \in F}
    <3>1. Gather(Table, data_chunk[r]) = {Entry(row) : row \in F}
      BY <1>5
    <3> HIDE DEF F
    <3> QED BY <1>7, <3>1
  <2>2. \A b : Row(b, r) = ResultRow(chunk, i, b, r)
    BY DEF Row, ResultRow
  <2>3. Due(chunk, i, r) = {row.id : row \in F}
    BY <1>6
  <2> HIDE DEF F
  <2> QED BY <2>1, <2>2, <2>3
<1>9. result' = result \cup
        UNION {{Row(e.row, r) : e \in Gather(Table, data_chunk[r])} : r \in Hit}
  BY DEF ProbeInner
<1>10. ASSUME NEW x \in result', x \notin result
       PROVE  \E r \in DOMAIN input.probe[chunk] : \E b \in Due(chunk, i, r) :
                x = ResultRow(chunk, i, b, r)
  <2>1. PICK r \in Hit : x \in {Row(e.row, r) : e \in Gather(Table, data_chunk[r])}
    BY <1>9, <1>10
  <2>2. r \in DOMAIN input.probe[chunk]
    BY <1>4
  <2>3. x \in {ResultRow(chunk, i, b, r) : b \in Due(chunk, i, r)}
    BY <1>8, <2>1, <2>2
  <2> QED BY <2>2, <2>3
<1>11. ASSUME NEW r \in DOMAIN input.probe[chunk], NEW b \in Due(chunk, i, r)
       PROVE  ResultRow(chunk, i, b, r) \in result'
  <2>1. r \in Hit
    BY <1>4, <1>6
  <2>2. ResultRow(chunk, i, b, r) \in {Row(e.row, r) : e \in Gather(Table, data_chunk[r])}
    BY <1>8
  <2> QED BY <1>9, <2>1, <2>2
<1> QED BY <1>9, <1>10, <1>11 DEF Adds

LEMMA SemiAdds ==
  ASSUME JoinInv, Covered, ProbeSemi
  PROVE  Adds /\ uniqueNumbers' = Seen(chunk, i + 1)
<1>1. Probing("SEMI")
  BY DEF ProbeSemi
<1>2. /\ input \in Inputs /\ ~LessThan /\ pc # "build" /\ input.join_type = "SEMI"
      /\ chunk \in DOMAIN input.probe /\ i \in 0 .. Passes - 1 /\ i \in Nat
      /\ uniqueNumbers = Seen(chunk, i)
  BY <1>1, PassFacts DEF ProbeInv
<1>3. Hit = {r \in DOMAIN input.probe[chunk] : Found(TableOf(i), chunk, r) # {}}
  BY <1>2, HitExact
<1>4. Seen(chunk, i + 1) = Seen(chunk, i) \cup Hit
  BY <1>2, <1>3, SeenNext
<1>5. \A r : r \in Hit \ uniqueNumbers <=>
        r \in DOMAIN input.probe[chunk] /\ r \in Seen(chunk, i + 1) /\ r \notin Seen(chunk, i)
  BY <1>2, <1>3, <1>4
<1>6. \A r : Due(chunk, i, r) =
        {b \in {NoRow} : r \in Seen(chunk, i + 1) /\ r \notin Seen(chunk, i)}
  BY <1>2 DEF Due
<1>7. \A b, r : Row(b, r) = ResultRow(chunk, i, b, r)
  BY DEF Row, ResultRow
<1>8. result' = result \cup {Row(NoRow, r) : r \in Hit \ uniqueNumbers}
  BY DEF ProbeSemi
<1>9. uniqueNumbers' = Seen(chunk, i + 1)
  BY <1>2, <1>4 DEF ProbeSemi
<1>10. Adds
  BY <1>5, <1>6, <1>7, <1>8 DEF Adds
<1> QED BY <1>9, <1>10

LEMMA AntiAdds ==
  ASSUME JoinInv, Covered, ProbeAnti
  PROVE  /\ Adds
         /\ IF last' = NoBitmap THEN Seen(chunk, i + 1) = {} ELSE last' = Seen(chunk, i + 1)
<1>1. Probing("ANTI")
  BY DEF ProbeAnti
<1>2. /\ input \in Inputs /\ ~LessThan /\ pc # "build" /\ input.join_type = "ANTI"
      /\ chunk \in DOMAIN input.probe /\ i \in 0 .. Passes - 1 /\ i \in Nat
      /\ Passes \in Nat /\ TablesFilled
      /\ IF last = NoBitmap THEN Seen(chunk, i) = {} ELSE last = Seen(chunk, i)
      /\ i = 0 => last = NoBitmap
  BY <1>1, PassFacts DEF ProbeInv, Covered
<1>3. Hit = {r \in DOMAIN input.probe[chunk] : Found(TableOf(i), chunk, r) # {}}
  BY <1>2, HitExact
<1>4. Seen(chunk, i + 1) = Seen(chunk, i) \cup Hit
  BY <1>2, <1>3, SeenNext
<1>5. \A S \in SUBSET DOMAIN input.probe[chunk] : S # NoBitmap
  BY <1>2, InputAssumption
<1>6. Seen(chunk, i + 1) \in SUBSET DOMAIN input.probe[chunk]
  BY DEF Seen
<1>7. Table = TableOf(i) /\ Table \in Pipelines
  BY <1>2, TableFacts
<1>8. CASE total_count[Table] = 0
  <2>1. ~input.is_copy /\ i = 0
    <3>1. ~(total_count[Table] > 0)
      BY <1>8
    <3>2. ~input.is_copy
      BY <1>2, <3>1 DEF TablesFilled, Table
    <3> QED BY <1>2, <1>7, <3>1, <3>2 DEF TablesFilled, Table
  <2>2. Hit = {} /\ BitMap = NoBitmap /\ Seen(chunk, i) = {}
    BY <1>2, <1>8, <2>1 DEF Hit, BitMap
  <2>3. ~is_final_probe /\ last' = NoBitmap /\ result' = result
    BY <2>2 DEF ProbeAnti
  <2>4. i # Passes - 1
    BY <2>1, <2>3 DEF is_final_probe, Passes
  <2>5. \A r : Due(chunk, i, r) = {}
    BY <1>2, <2>4 DEF Due
  <2> QED BY <1>4, <2>2, <2>3, <2>5 DEF Adds
<1>9. CASE total_count[Table] # 0
  <2>1. BitMap = Seen(chunk, i + 1)
    <3>1. CASE last = NoBitmap
      BY <1>2, <1>4, <1>9, <3>1 DEF BitMap
    <3>2. CASE last # NoBitmap
      BY <1>2, <1>4, <1>9, <3>2 DEF BitMap
    <3> QED BY <3>1, <3>2
  <2>2. last' = Seen(chunk, i + 1) /\ last' # NoBitmap
    BY <1>5, <1>6, <2>1 DEF ProbeAnti
  <2>3. is_final_probe <=> i = Passes - 1
    <3>1. CASE input.is_copy
      <4>1. Passes = 1
        BY <3>1 DEF Passes
      <4>2. i = 0
        BY <1>2, <4>1
      <4> QED BY <3>1, <4>1, <4>2 DEF is_final_probe
    <3>2. CASE ~input.is_copy
      BY <3>2 DEF is_final_probe, Passes
    <3> QED BY <3>1, <3>2
  <2>4. \A r : Due(chunk, i, r) =
          {b \in {NoRow} : i = Passes - 1 /\ r \notin Seen(chunk, i + 1)}
    BY <1>2 DEF Due
  <2>5. \A b, r : Row(b, r) = ResultRow(chunk, i, b, r)
    BY DEF Row, ResultRow
  <2>6. CASE is_final_probe
    <3>1. result' = result \cup
            {Row(NoRow, r) : r \in DOMAIN input.probe[chunk] \ Seen(chunk, i + 1)}
      BY <2>1, <2>6 DEF ProbeAnti, data_chunk
    <3>2. Adds
      BY <2>3, <2>4, <2>5, <2>6, <3>1 DEF Adds
    <3> QED BY <2>2, <3>2
  <2>7. CASE ~is_final_probe
    <3>1. result' = result
      BY <2>7 DEF ProbeAnti
    <3>2. Adds
      BY <2>3, <2>4, <2>7, <3>1 DEF Adds
    <3> QED BY <2>2, <3>2
  <2> QED BY <2>6, <2>7
<1> QED BY <1>8, <1>9

-----------------------------------------------------------------------------
(* The invariant after a step *)

\* The result of a pass that adds what it owes.
LEMMA PassKeepsResult ==
  ASSUME input' = input, ResultInv, Adds, chunk \in DOMAIN input.probe,
         chunk \in Nat, DOMAIN input.probe \subseteq Nat,
         Passes \in Nat, i \in 0 .. Passes - 1, chunk' = chunk, i' = i + 1
  PROVE  ResultInv'
<1>1. \A c \in DOMAIN input.probe, j \in 0 .. Passes - 1 :
        Done(c, j)' <=> Done(c, j) \/ (c = chunk /\ j = i)
  BY DEF Done
<1>2. Passes' = Passes /\ \A c, j, r : Due(c, j, r)' = Due(c, j, r)
  BY InputKept, DueKept
<1>3. ASSUME NEW x \in result'
      PROVE  \E c \in DOMAIN input.probe, j \in 0 .. Passes - 1 :
               \E r \in DOMAIN input.probe[c] : \E b \in Due(c, j, r) :
                 Done(c, j)' /\ x = ResultRow(c, j, b, r)
  <2>1. CASE x \in result
    <3>1. PICK c \in DOMAIN input.probe, j \in 0 .. Passes - 1 :
            \E r \in DOMAIN input.probe[c] : \E b \in Due(c, j, r) :
              Done(c, j) /\ x = ResultRow(c, j, b, r)
      BY <2>1 DEF ResultInv
    <3>2. Done(c, j)'
      BY <1>1, <3>1
    <3> QED BY <3>1, <3>2
  <2>2. CASE x \notin result
    <3>1. PICK c \in DOMAIN input.probe : c = chunk
      OBVIOUS
    <3>2. PICK j \in 0 .. Passes - 1 : j = i
      OBVIOUS
    <3>3. Done(c, j)'
      BY <1>1, <3>1, <3>2
    <3>4. \E r \in DOMAIN input.probe[c] : \E b \in Due(c, j, r) :
            x = ResultRow(c, j, b, r)
      BY <2>2, <3>1, <3>2 DEF Adds
    <3> QED BY <3>3, <3>4
  <2> QED BY <2>1, <2>2
<1>4. ASSUME NEW c \in DOMAIN input.probe, NEW j \in 0 .. Passes - 1,
             NEW r \in DOMAIN input.probe[c], NEW b \in Due(c, j, r), Done(c, j)'
      PROVE  ResultRow(c, j, b, r) \in result'
  <2>1. CASE Done(c, j)
    BY <2>1, Zenon DEF ResultInv, Adds
  <2>2. CASE c = chunk /\ j = i
    BY <2>2, Zenon DEF Adds
  <2> QED BY <1>1, <1>4, <2>1, <2>2
<1>5. \A c, j, b, r : ResultRow(c, j, b, r)' = ResultRow(c, j, b, r)
  BY DEF ResultRow
<1> QED BY <1>2, <1>3, <1>4, <1>5, ZenonT(40) DEF ResultInv

\* The result where nothing is added and nothing falls due.
LEMMA RestKeepsResult ==
  ASSUME input' = input, ResultInv, result' = result,
         \A c \in DOMAIN input.probe, j \in 0 .. Passes - 1 :
           \A r \in DOMAIN input.probe[c] : Done(c, j)' <=> Done(c, j)
  PROVE  ResultInv'
<1>1. Passes' = Passes /\ \A c, j, r : Due(c, j, r)' = Due(c, j, r)
  BY InputKept, DueKept
<1>2. \A c, j, b, r : ResultRow(c, j, b, r)' = ResultRow(c, j, b, r)
  BY DEF ResultRow
<1>3. ASSUME NEW x \in result
      PROVE  \E c \in DOMAIN input.probe, j \in 0 .. Passes - 1 :
               \E r \in DOMAIN input.probe[c] : \E b \in Due(c, j, r) :
                 Done(c, j)' /\ x = ResultRow(c, j, b, r)
  <2>1. PICK c \in DOMAIN input.probe, j \in 0 .. Passes - 1 :
          \E r \in DOMAIN input.probe[c] : \E b \in Due(c, j, r) :
            Done(c, j) /\ x = ResultRow(c, j, b, r)
    BY DEF ResultInv
  <2>2. Done(c, j)'
    BY <2>1
  <2> QED BY <2>1, <2>2
<1>4. ASSUME NEW c \in DOMAIN input.probe, NEW j \in 0 .. Passes - 1,
             NEW r \in DOMAIN input.probe[c], NEW b \in Due(c, j, r), Done(c, j)'
      PROVE  ResultRow(c, j, b, r) \in result
  BY <1>4, Zenon DEF ResultInv
<1>5. \A x \in result' :
        \E c \in DOMAIN input.probe, j \in 0 .. Passes - 1 :
          \E r \in DOMAIN input.probe[c] : \E b \in Due(c, j, r) :
            Done(c, j)' /\ x = ResultRow(c, j, b, r)
  BY <1>3
<1>6. \A c \in DOMAIN input.probe, j \in 0 .. Passes - 1 : \A r \in DOMAIN input.probe[c] :
        \A b \in Due(c, j, r) : Done(c, j)' => ResultRow(c, j, b, r) \in result'
  BY <1>4
<1> QED BY <1>1, <1>2, <1>5, <1>6, SMTT(60) DEF ResultInv

\* What ProbeInv says after a step, in terms of the rows seen before it.
LEMMA SeenAfter ==
  ASSUME input' = input
  PROVE  Seen(chunk, i)' = Seen(chunk', i')
<1>1. PICK d : d = chunk'
  OBVIOUS
<1>2. PICK n : n = i'
  OBVIOUS
<1>3. Seen(chunk, i)' = Seen(d, n)'
  BY <1>1, <1>2 DEF Seen, Found, TableOf, RowsOf, RowsUpTo, Partner, comparison_types
<1> QED BY <1>1, <1>2, <1>3, DueKept

LEMMA CoveredKept ==
  ASSUME UNCHANGED <<input, total_count>>
  PROVE  Covered' = Covered /\ TablesFilled' = TablesFilled
<1>1. TablesFilled' = TablesFilled
  BY DEF TablesFilled
<1> QED BY <1>1, InputKept DEF Covered

LEMMA PassKeepsInv ==
  ASSUME JoinInv, Covered, ProbeInner \/ ProbeSemi \/ ProbeAnti
  PROVE  ProbeInv' /\ ResultInv'
<1>1. PICK t : Probing(t)
  BY DEF ProbeInner, ProbeSemi, ProbeAnti
<1>2. /\ input \in Inputs /\ input.join_type = t /\ ProbeInv /\ ResultInv
      /\ chunk \in DOMAIN input.probe /\ chunk \in Nat
      /\ chunk <= Len(input.probe) /\ Len(input.probe) \in Nat
      /\ i \in 0 .. Passes - 1 /\ i \in Nat /\ Passes \in Nat
  BY <1>1, PassFacts
<1>3. /\ UNCHANGED <<input, total_count>> /\ chunk' = chunk /\ i' = i + 1
  BY DEF ProbeInner, ProbeSemi, ProbeAnti, tableVars
<1>4. /\ Adds
      /\ input.join_type = "SEMI" => uniqueNumbers' = Seen(chunk, i + 1)
      /\ input.join_type = "ANTI" =>
           IF last' = NoBitmap THEN Seen(chunk, i + 1) = {} ELSE last' = Seen(chunk, i + 1)
  <2>1. CASE ProbeInner
    BY <2>1, InnerAdds DEF ProbeInner, Probing
  <2>2. CASE ProbeSemi
    BY <2>2, SemiAdds DEF ProbeSemi, Probing
  <2>3. CASE ProbeAnti
    BY <2>3, AntiAdds DEF ProbeAnti, Probing
  <2> QED BY <2>1, <2>2, <2>3
<1>5. DOMAIN input.probe \subseteq Nat
  BY <1>2, ProbeFacts
<1>6. ResultInv'
  BY <1>2, <1>3, <1>4, <1>5, PassKeepsResult
<1>7. Seen(chunk, i)' = Seen(chunk, i + 1)
  BY <1>3, SeenAfter
<1>8. i' \in 0 .. Passes' /\ i' # 0
  BY <1>2, <1>3, InputKept
<1>9. chunk' \in 1 .. Len(input'.probe) + 1
  BY <1>2, <1>3 DEF ProbeInv
<1> QED BY <1>3, <1>4, <1>6, <1>7, <1>8, <1>9 DEF ProbeInv

LEMMA NothingSeen ==
  ASSUME NEW c PROVE Seen(c, 0) = {}
<1>1. 0 .. 0 - 1 = {}
  OBVIOUS
<1> QED BY <1>1 DEF Seen

\* Where a chunk starts, nothing has been seen of it.
LEMMA ChunkStarts ==
  ASSUME input' = input, input \in Inputs, chunk' \in 1 .. Len(input.probe) + 1,
         i' = 0, last' = NoBitmap, uniqueNumbers' = {}
  PROVE  ProbeInv'
<1>1. Seen(chunk, i)' = {}
  BY SeenAfter, NothingSeen
<1>2. i' \in 0 .. Passes'
  BY JoinAssumption DEF Passes
<1> QED BY <1>1, <1>2 DEF ProbeInv

LEMMA ChunkDoneKeepsInv ==
  ASSUME JoinInv, Covered, ChunkDone
  PROVE  ProbeInv' /\ ResultInv'
<1>1. /\ input \in Inputs /\ input' = input /\ ProbeInv /\ ResultInv
      /\ chunk <= Len(input.probe) /\ result' = result
      /\ chunk' = chunk + 1 /\ i' = 0 /\ last' = NoBitmap /\ uniqueNumbers' = {}
      /\ input.probe[chunk] = <<>> \/ i = Passes
  BY DEF JoinInv, ChunkDone, data_chunk, Passes
<1>2. /\ Len(input.probe) \in Nat /\ chunk \in 1 .. Len(input.probe) + 1
      /\ Passes \in Nat /\ DOMAIN input.probe \subseteq Nat
  BY <1>1, ProbeFacts, JoinAssumption DEF ProbeInv, Passes
<1>3. chunk' \in 1 .. Len(input.probe) + 1
  BY <1>1, <1>2
<1>4. ASSUME NEW c \in DOMAIN input.probe, NEW j \in 0 .. Passes - 1,
             NEW r \in DOMAIN input.probe[c]
      PROVE  Done(c, j)' <=> Done(c, j)
  <2>1. c \in Nat /\ j \in Nat /\ j < Passes /\ chunk \in Nat
    BY <1>2
  <2>2. Done(c, j)' <=> c < chunk + 1 \/ (c = chunk + 1 /\ j < 0)
    BY <1>1 DEF Done
  <2>3. Done(c, j)' <=> c < chunk \/ c = chunk
    BY <2>1, <2>2
  <2>4. c = chunk => j < i
    <3> SUFFICES ASSUME c = chunk PROVE j < i
      OBVIOUS
    <3>1. input.probe[chunk] # <<>>
      OBVIOUS
    <3> QED BY <1>1, <2>1, <3>1
  <2> QED BY <2>3, <2>4 DEF Done
<1>5. ResultInv'
  BY <1>1, <1>4, RestKeepsResult
<1> QED BY <1>1, <1>3, <1>5, ChunkStarts

LEMMA BuildDoneStarts ==
  ASSUME JoinInv, BuildDone
  PROVE  ProbeInv' /\ ResultInv'
<1>1. /\ input \in Inputs /\ input' = input /\ chunk' = 1 /\ i' = 0 /\ last' = NoBitmap
      /\ uniqueNumbers' = {} /\ result' = {}
  BY DEF JoinInv, BuildDone, probeVars
<1>2. Len(input.probe) \in Nat /\ DOMAIN input.probe = 1 .. Len(input.probe)
  BY <1>1, ProbeFacts
<1>3. ProbeInv'
  BY <1>1, <1>2, ChunkStarts
<1>4. \A c \in DOMAIN input.probe, j \in 0 .. Passes - 1 : ~Done(c, j)'
  <2> TAKE c \in DOMAIN input.probe, j \in 0 .. Passes - 1
  <2>1. Done(c, j)' <=> c < 1 \/ (c = 1 /\ j < 0)
    BY <1>1 DEF Done
  <2>2. c \in Nat /\ c >= 1
    BY <1>2
  <2>3. j \in Nat
    BY JoinAssumption DEF Passes
  <2> QED BY <2>1, <2>2, <2>3
<1>5. ResultInv'
  BY <1>1, <1>4, InputKept, Zenon DEF ResultInv
<1> QED BY <1>3, <1>5

LEMMA JoinInvInitially == Init => JoinInv
<1> SUFFICES ASSUME Init PROVE JoinInv
  OBVIOUS
<1>1. TagInv
  BY DEF Init, TagInv, Shape, TagsCoverEntries
<1>2. TableInv
  <2> SUFFICES ASSUME NEW p \in Pipelines
               PROVE  /\ built[p] \in 0 .. Len(input.build[p])
                      /\ pc # "build" => built[p] = Len(input.build[p])
                      /\ \A b \in BucketIds :
                           buckets[p][b] =
                             {e \in {Entry(row) : row \in RowsUpTo(p, built[p])} :
                                Bucket(e.hash) = b}
                      /\ total_count[p] \in Nat
                      /\ total_count[p] = 0 => RowsUpTo(p, built[p]) = {}
    BY DEF TableInv
  <2>1. Len(input.build[p]) \in Nat
    BY BuildFacts DEF Init
  <2>2. built[p] = 0 /\ total_count[p] = 0 /\ pc = "build"
    BY DEF Init
  <2>3. RowsUpTo(p, 0) = {}
    <3>1. 1 .. 0 = {}
      OBVIOUS
    <3> QED BY <3>1 DEF RowsUpTo
  <2>4. \A b \in BucketIds : buckets[p][b] = {}
    BY DEF Init
  <2> QED BY <2>1, <2>2, <2>3, <2>4
<1> QED BY <1>1, <1>2 DEF Init, JoinInv

LEMMA JoinInvKept == JoinInv /\ [Next]_vars => JoinInv'
<1> SUFFICES ASSUME JoinInv, [Next]_vars PROVE JoinInv'
  OBVIOUS
<1>1. ASSUME NEW p \in Pipelines, Build(p) PROVE JoinInv'
  <2>1. TagInv'
    BY <1>1, InsertKeepsTags DEF JoinInv
  <2>2. TableInv'
    BY <1>1, BuildKeepsTables
  <2>3. /\ built' = [q \in Pipelines |-> built'[q]]
        /\ total_count' = [q \in Pipelines |-> total_count'[q]]
    BY <1>1 DEF Build, JoinInv
  <2>4. pc = "build" /\ pc' = "build" /\ UNCHANGED <<input, probeVars>>
    BY <1>1 DEF Build
  <2> QED BY <2>1, <2>2, <2>3, <2>4 DEF JoinInv, probeVars
<1>2. ASSUME UNCHANGED <<input, tableVars>>,
             pc = "build" /\ pc' # "build" =>
               \A p \in Pipelines : built[p] = Len(input.build[p]),
             pc' = "build" => pc = "build" /\ UNCHANGED probeVars,
             pc' # "build" /\ Covered => ProbeInv' /\ ResultInv'
      PROVE  JoinInv'
  <2>1. UNCHANGED <<input, built, buckets, tagged_info_or, total_count>>
    BY <1>2 DEF tableVars
  <2>2. TagInv'
    BY <2>1, UntouchedKeepsTags DEF JoinInv
  <2>3. TableInv'
    BY <1>2, <2>1, ProbeKeepsTables
  <2>4. Covered' = Covered
    BY <2>1, CoveredKept
  <2> QED BY <1>2, <2>1, <2>2, <2>3, <2>4 DEF JoinInv, probeVars
<1>3. CASE BuildDone
  <2>1. ProbeInv' /\ ResultInv'
    BY <1>3, BuildDoneStarts
  <2> QED BY <1>2, <1>3, <2>1 DEF BuildDone
<1>4. CASE ProbeInner \/ ProbeSemi \/ ProbeAnti
  <2>1. UNCHANGED <<input, tableVars>> /\ pc = "probe" /\ pc' = "probe"
    BY <1>4 DEF ProbeInner, ProbeSemi, ProbeAnti, Probing
  <2>2. Covered => ProbeInv' /\ ResultInv'
    BY <1>4, PassKeepsInv
  <2> QED BY <1>2, <2>1, <2>2
<1>5. CASE ChunkDone
  <2>1. UNCHANGED <<input, tableVars>> /\ pc = "probe" /\ pc' = "probe"
    BY <1>5 DEF ChunkDone
  <2>2. Covered => ProbeInv' /\ ResultInv'
    BY <1>5, ChunkDoneKeepsInv
  <2> QED BY <1>2, <2>1, <2>2
<1>6. CASE UNCHANGED <<input, tableVars, probeVars>> /\ (pc' = "build" <=> pc = "build")
  <2>1. UNCHANGED <<input, total_count, chunk, i, last, uniqueNumbers, result>>
    BY <1>6 DEF tableVars, probeVars
  <2>2. ASSUME pc # "build", Covered PROVE ProbeInv' /\ ResultInv'
    <3>1. ProbeInv /\ ResultInv
      BY <2>2 DEF JoinInv
    <3>2. \A c, j : Done(c, j)' <=> Done(c, j)
      BY <2>1 DEF Done
    <3>3. ResultInv'
      BY <2>1, <3>1, <3>2, RestKeepsResult
    <3>4. Seen(chunk, i)' = Seen(chunk, i)
      BY <2>1, SeenAfter
    <3>5. TablesFilled' = TablesFilled /\ Passes' = Passes
      BY <2>1, CoveredKept, InputKept
    <3> QED BY <2>1, <3>1, <3>3, <3>4, <3>5 DEF ProbeInv
  <2> QED BY <1>2, <1>6, <2>2
<1> QED BY <1>1, <1>3, <1>4, <1>5, <1>6 DEF Next, vars, ProbeAntiFails, ProbeDone, Probing

-----------------------------------------------------------------------------
(* From the passes to the result of the join *)

\* The partners of a row are what the passes over its chunk can find.
LEMMA PartnersFound ==
  ASSUME input \in Inputs, NEW c \in DOMAIN input.probe, NEW r \in DOMAIN input.probe[c],
         NEW row
  PROVE  row \in Partners(c, r) <=>
           \E j \in 0 .. Passes - 1 : row \in Found(TableOf(j), c, r)
<1> DEFINE P == IF input.is_copy THEN {input.prober} ELSE Pipelines
<1>1. P \subseteq Pipelines /\ P = {TableOf(j) : j \in 0 .. Passes - 1}
  <2>1. CASE input.is_copy
    <3>1. 0 \in 0 .. 1 - 1
      OBVIOUS
    <3> QED BY <2>1, <3>1, ProbeFacts DEF TableOf, Passes
  <2>2. CASE ~input.is_copy
    BY <2>2 DEF TableOf, Passes, Pipelines
  <2> QED BY <2>1, <2>2
<1>2. \A p \in Pipelines : DOMAIN input.build[p] = 1 .. Len(input.build[p])
  <2>1. input.build \in [Pipelines -> Seq(Seq(BuildRow))]
    BY InputAssumption
  <2> QED BY <2>1
<1>3. BuildRows = UNION {RowsOf(p) : p \in P}
  BY <1>1, <1>2 DEF BuildRows, RowsOf, RowsUpTo
<1> HIDE DEF P
<1>4. row \in BuildRows <=> \E j \in 0 .. Passes - 1 : row \in RowsOf(TableOf(j))
  BY <1>1, <1>3
<1> QED BY <1>4 DEF Partners, Found

\* The rows of the result that were made from a row whose chunk is done.
LEMMA MadeDue ==
  ASSUME input \in Inputs, ResultInv, NEW c \in DOMAIN input.probe, c < chunk,
         NEW r \in DOMAIN input.probe[c], NEW x
  PROVE  x \in Made(c, r) <=>
           \E j \in 0 .. Passes - 1 : \E b \in Due(c, j, r) : x = ResultRow(c, j, b, r)
<1>1. ASSUME x \in Made(c, r)
      PROVE  \E j \in 0 .. Passes - 1 : \E b \in Due(c, j, r) : x = ResultRow(c, j, b, r)
  <2>1. x \in result /\ x.chunk = c /\ x.probe = r
    BY <1>1 DEF Made
  <2>2. PICK d \in DOMAIN input.probe, j \in 0 .. Passes - 1 :
          \E q \in DOMAIN input.probe[d] : \E b \in Due(d, j, q) : x = ResultRow(d, j, b, q)
    BY <2>1 DEF ResultInv
  <2>3. PICK q \in DOMAIN input.probe[d] : \E b \in Due(d, j, q) : x = ResultRow(d, j, b, q)
    BY <2>2
  <2>4. PICK b \in Due(d, j, q) : x = ResultRow(d, j, b, q)
    BY <2>3
  <2>5. d = c /\ q = r
    BY <2>1, <2>4 DEF ResultRow
  <2> QED BY <2>4, <2>5
<1>2. ASSUME NEW j \in 0 .. Passes - 1, NEW b \in Due(c, j, r), x = ResultRow(c, j, b, r)
      PROVE  x \in Made(c, r)
  <2>1. Done(c, j)
    BY DEF Done
  <2>2. x \in result
    BY <1>2, <2>1 DEF ResultInv
  <2>3. x.chunk = c /\ x.probe = r
    BY <1>2 DEF ResultRow
  <2> QED BY <2>2, <2>3 DEF Made
<1> QED BY <1>1, <1>2

LEMMA InnerExact ==
  ASSUME input \in Inputs, ResultInv, NEW c \in DOMAIN input.probe, c < chunk,
         NEW r \in DOMAIN input.probe[c], input.join_type = "INNER"
  PROVE  /\ \A x \in Made(c, r) : \E row \in Partners(c, r) : x.build = row.id
         /\ \A row \in Partners(c, r) :
              ExactlyOne({x \in Made(c, r) : x.build = row.id})
<1>1. \A j : Due(c, j, r) = {row.id : row \in Found(TableOf(j), c, r)}
  BY DEF Due
<1>2. ASSUME NEW x \in Made(c, r) PROVE \E row \in Partners(c, r) : x.build = row.id
  <2>1. PICK j \in 0 .. Passes - 1 : \E b \in Due(c, j, r) : x = ResultRow(c, j, b, r)
    BY MadeDue
  <2>2. PICK row \in Found(TableOf(j), c, r) : x = ResultRow(c, j, row.id, r)
    BY <1>1, <2>1
  <2>3. row \in Partners(c, r)
    BY <2>2, PartnersFound
  <2> QED BY <2>2, <2>3 DEF ResultRow
<1>3. ASSUME NEW row \in Partners(c, r)
      PROVE  ExactlyOne({x \in Made(c, r) : x.build = row.id})
  <2>1. PICK j \in 0 .. Passes - 1 : row \in Found(TableOf(j), c, r)
    BY PartnersFound
  <2> DEFINE x == ResultRow(c, j, row.id, r)
  <2>2. x \in Made(c, r) /\ x.build = row.id
    <3>1. row.id \in Due(c, j, r)
      BY <1>1, <2>1
    <3>2. x \in Made(c, r)
      BY <3>1, MadeDue
    <3> QED BY <3>2 DEF ResultRow
  <2>3. ASSUME NEW y \in Made(c, r), y.build = row.id PROVE y = x
    <3>1. PICK k \in 0 .. Passes - 1 : \E b \in Due(c, k, r) : y = ResultRow(c, k, b, r)
      BY MadeDue
    <3>2. PICK row1 \in Found(TableOf(k), c, r) : y = ResultRow(c, k, row1.id, r)
      BY <1>1, <3>1
    <3>3. row1.id = row.id
      BY <2>3, <3>2 DEF ResultRow
    <3>4. \A m \in 0 .. Passes - 1 : TableOf(m) \in Pipelines
      BY ProbeFacts DEF TableOf, Passes, Pipelines
    <3>5. row.id[1] = TableOf(j) /\ row1.id[1] = TableOf(k)
      <4>1. row \in RowsOf(TableOf(j)) /\ row1 \in RowsOf(TableOf(k))
        BY <2>1, <3>2 DEF Found
      <4> QED BY <3>4, <4>1, RowFacts
    <3>6. TableOf(j) = TableOf(k)
      BY <3>3, <3>5
    <3>7. j = k
      <4>1. CASE input.is_copy
        <5>1. Passes = 1
          BY <4>1 DEF Passes
        <5> QED BY <5>1
      <4>2. CASE ~input.is_copy
        BY <3>6, <4>2 DEF TableOf
      <4> QED BY <4>1, <4>2
    <3> QED BY <3>2, <3>3, <3>7
  <2> HIDE DEF x
  <2>4. {y \in Made(c, r) : y.build = row.id} = {x}
    BY <2>2, <2>3
  <2> QED BY <2>2, <2>4 DEF ExactlyOne
<1> QED BY <1>2, <1>3

LEMMA SemiExact ==
  ASSUME input \in Inputs, ResultInv, NEW c \in DOMAIN input.probe, c < chunk,
         NEW r \in DOMAIN input.probe[c], input.join_type = "SEMI"
  PROVE  IF Partners(c, r) = {} THEN Made(c, r) = {} ELSE ExactlyOne(Made(c, r))
<1> DEFINE T == {j \in 0 .. Passes - 1 : Found(TableOf(j), c, r) # {}}
<1>0. Passes \in Nat /\ T \in SUBSET Nat
  BY JoinAssumption DEF Passes
<1>1. Partners(c, r) = {} <=> T = {}
  BY PartnersFound
<1>2. \A j : Due(c, j, r) = {b \in {NoRow} : r \in Seen(c, j + 1) /\ r \notin Seen(c, j)}
  BY DEF Due
<1>3. \A n \in 0 .. Passes : r \in Seen(c, n) <=> \E j \in T : j < n
  <2> TAKE n \in 0 .. Passes
  <2>1. r \in Seen(c, n) <=> \E j \in 0 .. n - 1 : Found(TableOf(j), c, r) # {}
    BY DEF Seen
  <2>2. \A j : j \in 0 .. n - 1 <=> j \in 0 .. Passes - 1 /\ j < n
    BY <1>0
  <2> QED BY <2>1, <2>2
<1> HIDE DEF T
<1>4. ASSUME NEW j \in 0 .. Passes - 1
      PROVE  Due(c, j, r) = {b \in {NoRow} : (\E k \in T : k < j + 1) /\ ~\E k \in T : k < j}
  <2>1. j \in 0 .. Passes /\ j + 1 \in 0 .. Passes
    BY <1>0
  <2> QED BY <1>2, <1>3, <2>1
<1>5. CASE T = {}
  <2>1. \A j \in 0 .. Passes - 1 : Due(c, j, r) = {}
    BY <1>4, <1>5
  <2>2. Made(c, r) = {}
    BY <2>1, MadeDue
  <2> QED BY <1>1, <1>5, <2>2
<1>6. CASE T # {}
  <2>1. PICK m \in T : \A k \in T : m <= k
    BY <1>0, <1>6, LeastMember
  <2>2. m \in 0 .. Passes - 1
    BY DEF T
  <2> DEFINE x == ResultRow(c, m, NoRow, r)
  <2>3. ASSUME NEW j \in 0 .. Passes - 1
        PROVE  Due(c, j, r) = {b \in {NoRow} : j = m}
    <3>1. (\E k \in T : k < j + 1) <=> m < j + 1
      BY <1>0, <2>1
    <3>2. (\E k \in T : k < j) <=> m < j
      BY <1>0, <2>1
    <3>3. m < j + 1 /\ ~(m < j) <=> j = m
      BY <1>0, <2>2
    <3> QED BY <1>4, <3>1, <3>2, <3>3
  <2>4. x \in Made(c, r)
    <3>1. NoRow \in Due(c, m, r)
      BY <2>2, <2>3
    <3> QED BY <2>2, <3>1, MadeDue
  <2>5. ASSUME NEW y \in Made(c, r) PROVE y = x
    <3>1. PICK j \in 0 .. Passes - 1 : \E b \in Due(c, j, r) : y = ResultRow(c, j, b, r)
      BY MadeDue
    <3>2. j = m /\ y = ResultRow(c, j, NoRow, r)
      BY <2>3, <3>1
    <3> QED BY <3>2
  <2> HIDE DEF x
  <2>6. Made(c, r) = {x}
    BY <2>4, <2>5
  <2> QED BY <1>1, <1>6, <2>4, <2>6 DEF ExactlyOne
<1> QED BY <1>5, <1>6

LEMMA AntiExact ==
  ASSUME input \in Inputs, ResultInv, NEW c \in DOMAIN input.probe, c < chunk,
         NEW r \in DOMAIN input.probe[c], input.join_type = "ANTI"
  PROVE  IF Partners(c, r) # {} THEN Made(c, r) = {} ELSE ExactlyOne(Made(c, r))
<1> DEFINE n == Passes - 1
           x == ResultRow(c, n, NoRow, r)
<1>0. n \in 0 .. Passes - 1 /\ n + 1 = Passes
  BY JoinAssumption DEF Passes
<1>1. Partners(c, r) # {} <=> r \in Seen(c, n + 1)
  BY <1>0, PartnersFound DEF Seen
<1>2. \A j : Due(c, j, r) = {b \in {NoRow} : j = n /\ r \notin Seen(c, j + 1)}
  BY DEF Due
<1> HIDE DEF n
<1>3. CASE r \in Seen(c, n + 1)
  <2>1. \A j : Due(c, j, r) = {}
    BY <1>2, <1>3
  <2>2. Made(c, r) = {}
    BY <2>1, MadeDue
  <2> QED BY <1>1, <1>3, <2>2
<1>4. CASE r \notin Seen(c, n + 1)
  <2>1. x \in Made(c, r)
    <3>1. NoRow \in Due(c, n, r)
      BY <1>2, <1>4
    <3> QED BY <1>0, <3>1, MadeDue
  <2>2. ASSUME NEW y \in Made(c, r) PROVE y = x
    <3>1. PICK j \in 0 .. Passes - 1 : \E b \in Due(c, j, r) : y = ResultRow(c, j, b, r)
      BY MadeDue
    <3>2. j = n /\ y = ResultRow(c, j, NoRow, r)
      BY <1>2, <3>1
    <3> QED BY <3>2
  <2> HIDE DEF x
  <2>3. Made(c, r) = {x}
    BY <2>1, <2>2
  <2> QED BY <1>1, <1>4, <2>1, <2>3 DEF ExactlyOne
<1> QED BY <1>3, <1>4

LEMMA JoinInvSuffices == JoinInv => JoinExact
<1> SUFFICES ASSUME JoinInv, Covered, NEW c \in 1 .. chunk - 1, NEW r \in DOMAIN input.probe[c]
             PROVE  Exact(c, r)
  BY DEF JoinExact, Covered
<1>1. input \in Inputs
  BY DEF JoinInv
<1>2. CASE pc = "build"
  <2>1. chunk = 1
    BY <1>2 DEF JoinInv
  <2> QED BY <2>1
<1>3. CASE pc # "build"
  <2>1. ProbeInv /\ ResultInv
    BY <1>3 DEF JoinInv
  <2>2. Len(input.probe) \in Nat /\ DOMAIN input.probe = 1 .. Len(input.probe)
    BY <1>1, ProbeFacts
  <2>3. c \in DOMAIN input.probe /\ c < chunk
    BY <2>1, <2>2 DEF ProbeInv
  <2>4. CASE input.join_type = "INNER"
    BY <1>1, <2>1, <2>3, <2>4, InnerExact DEF Exact
  <2>5. CASE input.join_type = "SEMI"
    BY <1>1, <2>1, <2>3, <2>5, SemiExact DEF Exact
  <2>6. CASE input.join_type = "ANTI"
    BY <1>1, <2>1, <2>3, <2>6, AntiExact DEF Exact
  <2> QED BY <1>1, <2>4, <2>5, <2>6, ProbeFacts
<1> QED BY <1>2, <1>3

(***************************************************************************)
(* Build and the probes of execute_operator give the result of the join    *)
(* for any number of pipelines and chunks, any rows and keys of any width, *)
(* whatever hashes collide and however the build rows are spread.          *)
(***************************************************************************)
THEOREM JoinIsExact == Spec => []JoinExact
<1> QED
  BY JoinInvInitially, JoinInvKept, JoinInvSuffices, PTL DEF Spec
=============================================================================
