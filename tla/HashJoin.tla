------------------------------ MODULE HashJoin ------------------------------
(***************************************************************************)
(* The hash join.  Every build pipeline fills a JoinHashTable of its own;  *)
(* when all have ended a probe pipeline takes its chunks and looks each up *)
(* in one table after the other (or in its own one only, with is_copy).    *)
(* Tables are only read then, so one probe pipeline stands for all.        *)
(*                                                                         *)
(* A hash is the set of its bits, so that & is intersection, | union and   *)
(* != the test whether a tag filters a bucket out.  Columns are INT32,     *)
(* whose std::hash is the number itself.  A result row is known by the     *)
(* chunk, the table and the rows it was made from; the columns that are    *)
(* copied into it are left out.  LEFT, RIGHT and OUTER are left out.       *)
(***************************************************************************)
EXTENDS Integers, Sequences, FiniteSets

CONSTANTS
  Parallelism,  \* pipelines on either side
  HashBits,     \* width of size_t
  radix_bits,   \* 2^radix_bits buckets in a table
  Inputs,       \* [join_type, is_copy, comparison_types, build, probe]
  NoBitmap,     \* a bit_map_packed without words
  NoRow         \* a result row has no columns of the build side

ASSUME JoinAssumption ==
  /\ Parallelism \in Nat \ {0}
  /\ HashBits \in Nat
  /\ radix_bits \in 0 .. HashBits

Pipelines == 0 .. Parallelism - 1

BuildRow == [id : Pipelines \X Nat, key : Seq(Int)]
Comparisons == {"EQUAL", "NOTEQUAL", "LESSTHAN", "GREATERTHAN", "LESSTHANOREQUAL",
                "GREATERTHANOREQUAL"}

(* A row's id begins with its pipeline; the keys of both sides have the    *)
(* same columns; an INNER join has no comparison_types, as it is always    *)
(* constructed, and any other has one per column or none.  A bitmap is the *)
(* set of its bits.                                                        *)
ASSUME InputAssumption ==
  \A inp \in Inputs :
    /\ inp.join_type \in {"INNER", "SEMI", "ANTI"}
    /\ inp.is_copy \in BOOLEAN
    /\ inp.prober \in Pipelines
    /\ inp.comparison_types \in Seq(Comparisons)
    /\ inp.build \in [Pipelines -> Seq(Seq(BuildRow))]
    /\ inp.probe \in Seq(Seq(Seq(Int)))
    /\ inp.join_type = "INNER" => inp.comparison_types = <<>>
    /\ \A d \in DOMAIN inp.probe :
         /\ \A S \in SUBSET DOMAIN inp.probe[d] : S # NoBitmap
         /\ \A r \in DOMAIN inp.probe[d] :
              /\ inp.comparison_types # <<>> =>
                   Len(inp.probe[d][r]) = Len(inp.comparison_types)
              /\ \A p \in Pipelines : \A c \in DOMAIN inp.build[p] :
                   \A n \in DOMAIN inp.build[p][c] :
                     Len(inp.build[p][c][n].key) = Len(inp.probe[d][r])
    /\ \A p \in Pipelines : \A c \in DOMAIN inp.build[p] :
         \A n \in DOMAIN inp.build[p][c] : inp.build[p][c][n].id[1] = p

Bits == 0 .. HashBits - 1
BucketIds == SUBSET (0 .. radix_bits - 1)

VARIABLES
  input,           \* the join that runs, a member of Inputs
  pc,              \* "build", "probe", "done", "crashed"
  built,           \* per pipeline, chunks its sink has taken
  buckets,         \* per pipeline and bucket, entry_set
  tagged_info_or,  \* per pipeline and bucket
  total_count,     \* per pipeline
  chunk,           \* the probe chunk in work
  i,               \* the table that is probed next
  last,            \* the bitmap of probe_states[i - 1]
  uniqueNumbers,
  result

tableVars == <<built, buckets, tagged_info_or, total_count>>
probeVars == <<chunk, i, last, uniqueNumbers, result>>
vars == <<input, pc, tableVars, probeVars>>

comparison_types == input.comparison_types

Init ==
  /\ input \in Inputs
  /\ pc = "build"
  /\ built = [p \in Pipelines |-> 0]
  /\ buckets = [p \in Pipelines |-> [b \in BucketIds |-> {}]]
  /\ tagged_info_or = [p \in Pipelines |-> [b \in BucketIds |-> {}]]
  /\ total_count = [p \in Pipelines |-> 0]
  /\ chunk = 1
  /\ i = 0
  /\ last = NoBitmap
  /\ uniqueNumbers = {}
  /\ result = {}

-----------------------------------------------------------------------------
(* Hashing *)

BitsOf(n) == {b \in Bits : (n \div 2^b) % 2 = 1}

\* Hashs: column k of the key is shifted by its position and xor-ed in.
Hash(cols) ==
  {b \in Bits :
     Cardinality({k \in DOMAIN cols : b - (k - 1) \in BitsOf(cols[k])}) % 2 = 1}

\* Only the columns that are compared for equality are hashed.
HashedColumns(types, key) ==
  IF types = <<>> THEN key
  ELSE LET eq == {k \in DOMAIN key : types[k] = "EQUAL"}
           at(n) == CHOOSE k \in eq : Cardinality({l \in eq : l < k}) = n - 1
       IN  [n \in 1 .. Cardinality(eq) |-> key[at(n)]]

join_keys(key) == HashedColumns(comparison_types, key)

Bucket(hash) == hash \cap (0 .. radix_bits - 1)

-----------------------------------------------------------------------------
(* Build *)

Entry(row) ==
  [row |-> row.id, key |-> row.key, hash |-> Hash(join_keys(row.key))]

Entries(rows) == {Entry(rows[n]) : n \in DOMAIN rows}

InBucket(rows, b) == {e \in Entries(rows) : Bucket(e.hash) = b}

\* Mutant: a chunk's tags replace those of the chunks before.
BuildReplacingTag(p) ==
  /\ pc = "build"
  /\ built[p] < Len(input.build[p])
  /\ LET rows == input.build[p][built[p] + 1] IN
     /\ buckets' = [buckets EXCEPT ![p] =
          [b \in BucketIds |-> @[b] \cup InBucket(rows, b)]]
     /\ tagged_info_or' = [tagged_info_or EXCEPT ![p] =
          [b \in BucketIds |-> UNION {e.hash : e \in InBucket(rows, b)}]]
     /\ total_count' = [total_count EXCEPT ![p] = @ + Len(rows)]
  /\ built' = [built EXCEPT ![p] = @ + 1]
  /\ UNCHANGED <<input, pc, probeVars>>

\* JoinHashTable::Build on the next chunk of pipeline p, with InsertEntry
\* for each of its rows.
Build(p) ==
  /\ pc = "build"
  /\ built[p] < Len(input.build[p])
  /\ LET rows == input.build[p][built[p] + 1] IN
     /\ buckets' = [buckets EXCEPT ![p] =
          [b \in BucketIds |-> @[b] \cup InBucket(rows, b)]]
     /\ tagged_info_or' = [tagged_info_or EXCEPT ![p] =
          [b \in BucketIds |->
             @[b] \cup UNION {e.hash : e \in InBucket(rows, b)}]]
     /\ total_count' = [total_count EXCEPT ![p] = @ + Len(rows)]
  /\ built' = [built EXCEPT ![p] = @ + 1]
  /\ UNCHANGED <<input, pc, probeVars>>

\* The group of the build side is complete.
BuildDone ==
  /\ pc = "build"
  /\ \A p \in Pipelines : built[p] = Len(input.build[p])
  /\ pc' = "probe"
  /\ UNCHANGED <<input, tableVars, probeVars>>

-----------------------------------------------------------------------------
(* Probe *)

Compare(op, left, right) ==
  CASE op = "EQUAL"              -> left = right
    [] op = "NOTEQUAL"           -> left # right
    [] op = "LESSTHAN"           -> left <= right
    [] op = "GREATERTHAN"        -> left > right
    [] op = "LESSTHANOREQUAL"    -> left <= right
    [] op = "GREATERTHANOREQUAL" -> left >= right

\* GatherData compares the hashed columns, GatherSemiData and GatherAntiData
\* all of them.
Matches(key, entry) ==
  IF comparison_types = <<>> \/ input.join_type = "INNER"
  THEN \A k \in DOMAIN join_keys(key) : join_keys(key)[k] = entry.key[k]
  ELSE \A k \in DOMAIN key : Compare(comparison_types[k], key[k], entry.key[k])

\* The bucket holds nothing with all the bits of this hash.
FilteredOut(hash, tag) == hash \cup tag # tag

\* The entries that JoinHashTable::Probe finds for a key in table p.
Gather(p, key) ==
  LET hash == Hash(join_keys(key)) IN
  IF FilteredOut(hash, tagged_info_or[p][Bucket(hash)]) THEN {}
  ELSE {e \in buckets[p][Bucket(hash)] : e.hash = hash /\ Matches(key, e)}

data_chunk == input.probe[chunk]
Table == IF input.is_copy THEN input.prober ELSE i
is_final_probe == input.is_copy \/ i = Parallelism - 1

\* match_row_idx of the probe state; an empty table is not looked into.
Hit ==
  IF total_count[Table] = 0 THEN {}
  ELSE {r \in DOMAIN data_chunk : Gather(Table, data_chunk[r]) # {}}

Probing(type) ==
  /\ pc = "probe"
  /\ chunk <= Len(input.probe)
  /\ data_chunk # <<>>
  /\ i < (IF input.is_copy THEN 1 ELSE Parallelism)
  /\ input.join_type = type

\* A row of res_p.
Row(build, r) == [chunk |-> chunk, pass |-> i, build |-> build, probe |-> r]

ProbeInner ==
  /\ Probing("INNER")
  /\ result' = result \cup
       UNION {{Row(e.row, r) : e \in Gather(Table, data_chunk[r])} : r \in Hit}
  /\ i' = i + 1
  /\ UNCHANGED <<input, pc, tableVars, chunk, last, uniqueNumbers>>

ProbeSemi ==
  /\ Probing("SEMI")
  /\ result' = result \cup {Row(NoRow, r) : r \in Hit \ uniqueNumbers}
  /\ uniqueNumbers' = uniqueNumbers \cup Hit
  /\ i' = i + 1
  /\ UNCHANGED <<input, pc, tableVars, chunk, last>>

\* bit_map_packed after the bits of the table before have been or-ed in,
\* up to the shorter of the two vectors.
BitMap ==
  IF total_count[Table] = 0 THEN NoBitmap
  ELSE IF last = NoBitmap THEN Hit ELSE Hit \cup last

ProbeAnti ==
  /\ Probing("ANTI")
  /\ ~(is_final_probe /\ BitMap = NoBitmap)
  /\ last' = BitMap
  /\ result' = IF is_final_probe
               THEN result \cup {Row(NoRow, r) : r \in DOMAIN data_chunk \ BitMap}
               ELSE result
  /\ i' = i + 1
  /\ UNCHANGED <<input, pc, tableVars, chunk, uniqueNumbers>>

\* GetBit reads a word of a vector that has none.
ProbeAntiFails ==
  /\ Probing("ANTI")
  /\ is_final_probe /\ BitMap = NoBitmap
  /\ pc' = "crashed"
  /\ UNCHANGED <<input, tableVars, probeVars>>

\* Mutant: uniqueNumbers is kept for the next chunk.
ChunkDoneKeepingNumbers ==
  /\ pc = "probe"
  /\ chunk <= Len(input.probe)
  /\ data_chunk = <<>> \/ i = (IF input.is_copy THEN 1 ELSE Parallelism)
  /\ chunk' = chunk + 1
  /\ i' = 0
  /\ last' = NoBitmap
  /\ UNCHANGED <<input, pc, tableVars, uniqueNumbers, result>>

\* execute_operator returns; an empty chunk is not probed at all.
ChunkDone ==
  /\ pc = "probe"
  /\ chunk <= Len(input.probe)
  /\ data_chunk = <<>> \/ i = (IF input.is_copy THEN 1 ELSE Parallelism)
  /\ chunk' = chunk + 1
  /\ i' = 0
  /\ last' = NoBitmap
  /\ uniqueNumbers' = {}
  /\ UNCHANGED <<input, pc, tableVars, result>>

ProbeDone ==
  /\ pc = "probe"
  /\ chunk > Len(input.probe)
  /\ pc' = "done"
  /\ UNCHANGED <<input, tableVars, probeVars>>

Next ==
  \/ \E p \in Pipelines : Build(p)
  \/ BuildDone
  \/ ProbeInner \/ ProbeSemi \/ ProbeAnti \/ ProbeAntiFails
  \/ ChunkDone \/ ProbeDone

Spec == Init /\ [][Next]_vars

-----------------------------------------------------------------------------
(* Every variable has the type its declaration gives it. *)
TypeOK ==
  /\ pc \in {"build", "probe", "done", "crashed"}
  /\ built \in [Pipelines -> Nat]
  /\ \A p \in Pipelines, b \in BucketIds :
       /\ tagged_info_or[p][b] \subseteq Bits
       /\ \A e \in buckets[p][b] : e.hash \subseteq Bits
  /\ total_count \in [Pipelines -> Nat]
  /\ chunk \in 1 .. Len(input.probe) + 1
  /\ i \in 0 .. Parallelism
  /\ last = NoBitmap \/ last \subseteq Nat
  /\ uniqueNumbers \subseteq Nat
  /\ \A x \in result : x.chunk \in Nat /\ x.pass \in Pipelines

(***************************************************************************)
(* The tag filter is safe: whatever chunks a table was built from, an      *)
(* entry is in the bucket its hash selects, and the tag of that bucket has *)
(* every bit of the hash, so a key with the same hash is not filtered out. *)
(***************************************************************************)
TagsCoverEntries ==
  \A p \in Pipelines, b \in BucketIds : \A e \in buckets[p][b] :
    /\ Bucket(e.hash) = b
    /\ e.hash = Hash(join_keys(e.key))
    /\ ~FilteredOut(e.hash, tagged_info_or[p][b])

\* What the comparison is named for.
Means(op, left, right) ==
  IF op = "LESSTHAN" THEN left < right ELSE Compare(op, left, right)

Partner(key, row) ==
  \A k \in DOMAIN key :
    Means(IF comparison_types = <<>> THEN "EQUAL" ELSE comparison_types[k],
          key[k], row.key[k])

\* The rows of the tables that are probed.
BuildRows ==
  UNION {UNION {{input.build[p][c][n] : n \in DOMAIN input.build[p][c]} :
                c \in DOMAIN input.build[p]} :
         p \in IF input.is_copy THEN {input.prober} ELSE Pipelines}

Partners(c, r) == {row \in BuildRows : Partner(input.probe[c][r], row)}
Made(c, r) == {x \in result : x.chunk = c /\ x.probe = r}

ExactlyOne(S) == \E x \in S : S = {x}

\* The result of the join as its definition has it, for row r of chunk c.
Exact(c, r) ==
  CASE input.join_type = "INNER" ->
         /\ \A x \in Made(c, r) : \E row \in Partners(c, r) : x.build = row.id
         /\ \A row \in Partners(c, r) :
              ExactlyOne({x \in Made(c, r) : x.build = row.id})
    [] input.join_type = "SEMI" ->
         IF Partners(c, r) = {} THEN Made(c, r) = {} ELSE ExactlyOne(Made(c, r))
    [] input.join_type = "ANTI" ->
         IF Partners(c, r) # {} THEN Made(c, r) = {} ELSE ExactlyOne(Made(c, r))

LessThan == \E k \in DOMAIN comparison_types : comparison_types[k] = "LESSTHAN"

\* No table after the first is empty, nor the one that is probed alone.
TablesFilled ==
  IF input.is_copy THEN total_count[input.prober] > 0
  ELSE \A p \in Pipelines \ {0} : total_count[p] > 0

(***************************************************************************)
(* The join gives exactly its result, however the build rows are spread    *)
(* over pipelines and chunks and whatever hashes collide: each matching    *)
(* pair once, each matched row once however many tables it matches in, or  *)
(* each row that matches in no table.  (ANTI needs tables with rows, and   *)
(* < is compared as <=.)                                                   *)
(***************************************************************************)
JoinExact ==
  ~LessThan /\ (input.join_type = "ANTI" => TablesFilled) =>
    \A c \in 1 .. chunk - 1 : \A r \in DOMAIN input.probe[c] : Exact(c, r)

=============================================================================
