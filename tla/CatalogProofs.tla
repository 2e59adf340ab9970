---------------------------- MODULE CatalogProofs ---------------------------
(***************************************************************************)
(* For every number of tables, tasks, loads, I/O errors and crashes: as    *)
(* long as the file numbers fit their eight digits, no chunk whose file    *)
(* key was written is ever lost, damaged or shown under a second key, and  *)
(* a scan of a table reads exactly these chunks.  A table counts the rows  *)
(* of its partitions.                                                      *)
(***************************************************************************)
EXTENDS Catalog, FiniteSetTheorems, SequenceTheorems, WellFoundedInduction, TLAPS

\* The task is between its file number and the end of its file's use.
HasNumber(i) == task[i].pc \in {"write", "put", "open"}

(* The shape of the values the steps below take apart. *)
ShapeInv ==
  /\ global_file_number \in Nat
  /\ DOMAIN files = 0 .. FileNames - 1
  /\ DOMAIN task = Tasks
  /\ \A i \in Tasks : DOMAIN task[i] = DOMAIN Idle

(* Numbers are given out once, and a file is written before its key. *)
NumberInv ==
  /\ \A i \in Tasks : HasNumber(i) => task[i].number \in 1 .. global_file_number
  /\ \A i, j \in Tasks : HasNumber(i) /\ HasNumber(j) /\ task[i].number = task[j].number => i = j
  /\ \A k \in file_keys : k.name \in 1 .. global_file_number
  /\ \A i \in Tasks : task[i].pc \in {"write", "put"} =>
       \A k \in file_keys : k.name # task[i].number
  /\ \A i \in Tasks : task[i].pc = "put" =>
       files[task[i].number].complete /\ files[task[i].number].chunk = task[i].chunk

DiskInv ==
  ShapeInv /\ (global_file_number < FileNames => NumberInv /\ ChunksDurable)

-----------------------------------------------------------------------------
\* What every step but the three that touch the disk leaves alone.
LEMMA DiskInvKept ==
  ASSUME DiskInv, ShapeInv', UNCHANGED <<file_keys, global_file_number, files, put>>,
         \A i \in Tasks : HasNumber(i)' =>
           task'[i].pc = task[i].pc /\ task'[i].number = task[i].number
             /\ task'[i].chunk = task[i].chunk
  PROVE  DiskInv'
<1> SUFFICES ASSUME global_file_number' < FileNames PROVE NumberInv' /\ ChunksDurable'
  BY DEF DiskInv
<1>1. NumberInv /\ ChunksDurable
  BY DEF DiskInv
<1>2. ChunksDurable'
  BY <1>1 DEF ChunksDurable
<1>3. NumberInv'
  BY <1>1 DEF NumberInv, HasNumber
<1> QED BY <1>2, <1>3

\* A number that fits is the name of its file.
LEMMA NameIsNumber ==
  ASSUME NEW n \in 1 .. global_file_number, global_file_number \in Nat,
         global_file_number < FileNames
  PROVE  GetFileName(n) = n /\ n \in 0 .. FileNames - 1
<1>1. FileNames \in Nat /\ n \in Nat /\ n < FileNames
  BY CatalogAssumption
<1> QED BY <1>1 DEF GetFileName

LEMMA InitDiskInv == Init => DiskInv
BY CatalogAssumption DEF Init, DiskInv, ShapeInv, NumberInv, ChunksDurable, HasNumber, Idle

-----------------------------------------------------------------------------
\* The steps of insert_data move the task on and leave the others alone.
LEMMA PcSet ==
  ASSUME ShapeInv, NEW i \in Tasks, NEW p, task' = [task EXCEPT ![i].pc = p]
  PROVE  /\ DOMAIN task' = Tasks /\ DOMAIN task'[i] = DOMAIN Idle
         /\ \A j \in Tasks : j # i => task'[j] = task[j]
         /\ task'[i].pc = p
BY DEF ShapeInv, Idle

LEMMA TaskMoves ==
  ASSUME ShapeInv, NEW i \in Tasks,
         InsertColumns(i) \/ GetNextFileNumber(i) \/ WriteRecordBatch(i) \/ PutFileKey(i)
           \/ OpenReader(i) \/ ReadRowNums(i) \/ WriteRowNums(i)
  PROVE  /\ DOMAIN task' = Tasks /\ DOMAIN task'[i] = DOMAIN Idle
         /\ \A j \in Tasks : j # i => task'[j] = task[j]
         /\ InsertColumns(i) \/ OpenReader(i) \/ ReadRowNums(i) \/ WriteRowNums(i) =>
              ~HasNumber(i)'
<1>1. CASE WriteRecordBatch(i) \/ PutFileKey(i)
  <2>1. /\ \E p : task' = [task EXCEPT ![i].pc = p]
        /\ task[i].pc \in {"write", "put"}
    BY <1>1 DEF WriteRecordBatch, PutFileKey
  <2>2. ~InsertColumns(i) /\ ~OpenReader(i) /\ ~ReadRowNums(i) /\ ~WriteRowNums(i)
    BY <2>1 DEF InsertColumns, OpenReader, ReadRowNums, WriteRowNums
  <2> QED BY <2>1, <2>2, PcSet
<1>2. CASE InsertColumns(i) \/ OpenReader(i) \/ WriteRowNums(i)
  <2>1. \E p \in {"number", "count", "read"} : task' = [task EXCEPT ![i].pc = p]
    BY <1>2 DEF InsertColumns, OpenReader, WriteRowNums
  <2> QED BY <2>1, PcSet DEF HasNumber
<1>3. CASE GetNextFileNumber(i)
  <2>1. /\ task' = [task EXCEPT ![i] = [task[i] EXCEPT !.pc = "write",
                                                       !.number = global_file_number + 1]]
        /\ task[i].pc = "number"
    BY <1>3 DEF GetNextFileNumber
  <2>2. ~InsertColumns(i) /\ ~OpenReader(i) /\ ~ReadRowNums(i) /\ ~WriteRowNums(i)
    BY <2>1 DEF InsertColumns, OpenReader, ReadRowNums, WriteRowNums
  <2> QED BY <2>1, <2>2 DEF ShapeInv, Idle
<1>4. CASE ReadRowNums(i)
  <2> DEFINE r == Table(i).row_nums
  <2>1. task' = [task EXCEPT ![i] = [task[i] EXCEPT !.pc = "add", !.row_nums = r]]
    BY <1>4 DEF ReadRowNums
  <2> HIDE DEF r
  <2> QED BY <2>1 DEF ShapeInv, Idle, HasNumber
<1> QED BY <1>1, <1>2, <1>3, <1>4

LEMMA StepShape == DiskInv /\ [Next]_vars => ShapeInv'
<1> SUFFICES ASSUME ShapeInv, [Next]_vars PROVE ShapeInv'
  BY DEF DiskInv
<1> USE DEF vars, leveldb, bounds, history
<1>1. CASE UNCHANGED <<global_file_number, files, task>>
  BY <1>1 DEF ShapeInv
<1>2. ASSUME NEW o, NEW job \in Jobs, LoadFromFiles(o, job) PROVE ShapeInv'
  BY <1>2 DEF LoadFromFiles, ShapeInv, Idle
<1>3. ASSUME NEW i \in Tasks, ReadLines(i) \/ DropTask(i) PROVE ShapeInv'
  BY <1>3 DEF ReadLines, DropTask, ShapeInv, Idle
<1>4. ASSUME NEW i \in Tasks,
             InsertColumns(i) \/ GetNextFileNumber(i) \/ WriteRecordBatch(i) \/ PutFileKey(i)
               \/ OpenReader(i) \/ ReadRowNums(i) \/ WriteRowNums(i)
      PROVE  ShapeInv'
  <2>1. /\ DOMAIN task' = Tasks /\ DOMAIN task'[i] = DOMAIN Idle
        /\ \A j \in Tasks : j # i => task'[j] = task[j]
    BY <1>4, TaskMoves
  <2>2. \A j \in Tasks : DOMAIN task'[j] = DOMAIN Idle
    BY <2>1 DEF ShapeInv
  <2>3. global_file_number' \in Nat /\ DOMAIN files' = 0 .. FileNames - 1
    <3>1. CASE WriteRecordBatch(i)
      BY <3>1 DEF WriteRecordBatch, ShapeInv
    <3>2. CASE GetNextFileNumber(i)
      BY <3>2 DEF GetNextFileNumber, ShapeInv
    <3>3. CASE InsertColumns(i) \/ PutFileKey(i) \/ OpenReader(i) \/ ReadRowNums(i)
               \/ WriteRowNums(i)
      <4>1. UNCHANGED <<global_file_number, files>>
        BY <3>3 DEF InsertColumns, PutFileKey, OpenReader, ReadRowNums, WriteRowNums
      <4> QED BY <4>1 DEF ShapeInv
    <3> QED BY <1>4, <3>1, <3>2, <3>3
  <2> QED BY <2>1, <2>2, <2>3 DEF ShapeInv
<1>5. ASSUME NEW i \in Tasks, IoError(i) PROVE ShapeInv'
  BY <1>5 DEF IoError, ShapeInv, Idle
<1>6. CASE Crash
  BY <1>6 DEF Crash, ShapeInv, Idle
<1>7. CASE \/ \E t \in Tables, s \in Schemas, n \in 1 .. Partitions : RegisterTable(t, s, n)
           \/ \E t \in Tables : DeleteTable(t) \/ GetTable(t)
           \/ OpenDatabase
  BY <1>1, <1>7 DEF RegisterTable, DeleteTable, GetTable, OpenDatabase
<1>8. CASE UNCHANGED vars
  BY <1>1, <1>8
<1> QED BY <1>2, <1>3, <1>4, <1>5, <1>6, <1>7, <1>8 DEF Next

LEMMA StepDiskInv == DiskInv /\ [Next]_vars => DiskInv'
<1> SUFFICES ASSUME DiskInv, [Next]_vars PROVE DiskInv'
  OBVIOUS
<1> USE DEF vars, leveldb, bounds, history
<1>0. ShapeInv /\ ShapeInv' /\ FileNames \in Nat
  BY StepShape, CatalogAssumption DEF DiskInv
<1>1. CASE UNCHANGED <<file_keys, global_file_number, files, put, task>>
  BY <1>0, <1>1, DiskInvKept
<1>2. ASSUME NEW o, NEW job \in Jobs, LoadFromFiles(o, job) PROVE DiskInv'
  BY <1>0, <1>2, DiskInvKept DEF LoadFromFiles, HasNumber, Idle
<1>3. ASSUME NEW i \in Tasks,
             ReadLines(i) \/ DropTask(i) \/ InsertColumns(i) \/ OpenReader(i)
               \/ ReadRowNums(i) \/ WriteRowNums(i)
      PROVE  DiskInv'
  <2>1. UNCHANGED <<file_keys, global_file_number, files, put>>
    BY <1>3 DEF ReadLines, DropTask, InsertColumns, OpenReader, ReadRowNums, WriteRowNums
  <2>2. \A j \in Tasks : j # i => task'[j] = task[j]
    BY <1>0, <1>3 DEF ShapeInv, ReadLines, DropTask, InsertColumns, OpenReader, ReadRowNums,
       WriteRowNums
  <2>3. ~HasNumber(i)'
    <3>1. CASE ReadLines(i)
      BY <1>0, <3>1 DEF ReadLines, ShapeInv, HasNumber, Idle
    <3>2. CASE DropTask(i)
      BY <1>0, <3>2 DEF DropTask, ShapeInv, HasNumber, Idle
    <3>3. CASE InsertColumns(i) \/ OpenReader(i) \/ ReadRowNums(i) \/ WriteRowNums(i)
      BY <1>0, <3>3, TaskMoves
    <3> QED BY <1>3, <3>1, <3>2, <3>3
  <2> QED BY <1>0, <2>1, <2>2, <2>3, DiskInvKept
<1>4. CASE Crash
  BY <1>0, <1>4, DiskInvKept DEF Crash, HasNumber, Idle
<1>5. ASSUME NEW i \in Tasks, GetNextFileNumber(i) PROVE DiskInv'
  <2> SUFFICES ASSUME global_file_number' < FileNames PROVE NumberInv' /\ ChunksDurable'
    BY <1>0 DEF DiskInv
  <2>1. /\ global_file_number' = global_file_number + 1
        /\ global_file_number < FileNames
        /\ UNCHANGED <<file_keys, files, put>>
    BY <1>0, <1>5 DEF GetNextFileNumber, ShapeInv
  <2>2. NumberInv /\ ChunksDurable
    BY <2>1 DEF DiskInv
  <2>3. ChunksDurable'
    BY <2>1, <2>2 DEF ChunksDurable
  <2>4. /\ task'[i].pc = "write" /\ task'[i].number = global_file_number + 1
        /\ \A j \in Tasks : j # i => task'[j] = task[j]
    BY <1>0, <1>5 DEF GetNextFileNumber, ShapeInv, Idle
  <2>5. \A n : n \in 1 .. global_file_number =>
          n \in 1 .. global_file_number' /\ n # global_file_number + 1
    BY <1>0, <2>1 DEF ShapeInv
  <2>6. global_file_number + 1 \in 1 .. global_file_number'
    BY <1>0, <2>1 DEF ShapeInv
  <2>7. NumberInv'
    BY <2>1, <2>2, <2>4, <2>5, <2>6 DEF NumberInv, HasNumber
  <2> QED BY <2>3, <2>7
<1>6. ASSUME NEW i \in Tasks, task[i].pc = "write",
             WriteRecordBatch(i) \/ IoError(i)
      PROVE  DiskInv'
  <2> SUFFICES ASSUME global_file_number' < FileNames PROVE NumberInv' /\ ChunksDurable'
    BY <1>0 DEF DiskInv
  <2> DEFINE n == task[i].number
  <2>1. /\ UNCHANGED <<file_keys, global_file_number, put>>
        /\ global_file_number < FileNames
    BY <1>6 DEF WriteRecordBatch, IoError
  <2>2. NumberInv /\ ChunksDurable
    BY <2>1 DEF DiskInv
  <2>3. n \in 1 .. global_file_number /\ \A k \in file_keys : k.name # n
    BY <1>6, <2>2 DEF NumberInv, HasNumber
  <2>4. FileName(i) = n /\ n \in DOMAIN files
    BY <1>0, <2>1, <2>3, NameIsNumber DEF FileName, ShapeInv
  <2>5. \A m \in DOMAIN files : m # n => files'[m] = files[m]
    BY <1>6, <2>4 DEF WriteRecordBatch, IoError
  <2>6. \A m \in 1 .. global_file_number : m \in DOMAIN files
    BY <1>0, <2>1 DEF ShapeInv
  <2>7. \A k \in file_keys : files'[k.name] = files[k.name]
    BY <2>2, <2>3, <2>5, <2>6 DEF NumberInv
  <2>8. ChunksDurable'
    BY <2>1, <2>2, <2>7 DEF ChunksDurable
  <2>9. /\ \A j \in Tasks : j # i => task'[j] = task[j]
        /\ task'[i].number = n /\ task'[i].chunk = task[i].chunk
        /\ task'[i].pc = "count" \/ (task'[i].pc = "put" /\ WriteRecordBatch(i))
    BY <1>0, <1>6 DEF WriteRecordBatch, IoError, ShapeInv, Idle
  <2>10. WriteRecordBatch(i) => files'[n].complete /\ files'[n].chunk = task[i].chunk
    BY <2>4 DEF WriteRecordBatch
  <2>11. \A j \in Tasks : j # i /\ task[j].pc = "put" => files'[task[j].number] = files[task[j].number]
    BY <1>6, <2>2, <2>5, <2>6 DEF NumberInv, HasNumber
  <2>12. NumberInv'
    BY <1>6, <2>1, <2>2, <2>3, <2>9, <2>10, <2>11 DEF NumberInv, HasNumber
  <2> QED BY <2>8, <2>12
<1>7. ASSUME NEW i \in Tasks, IoError(i), task[i].pc # "write" PROVE DiskInv'
  <2>1. UNCHANGED <<file_keys, global_file_number, files, put>>
    BY <1>7 DEF IoError
  <2>2. \A j \in Tasks : j # i => task'[j] = task[j]
    BY <1>0, <1>7 DEF ShapeInv, IoError
  <2>3. ~HasNumber(i)'
    BY <1>0, <1>7 DEF IoError, ShapeInv, HasNumber, Idle
  <2> QED BY <1>0, <2>1, <2>2, <2>3, DiskInvKept
<1>8. ASSUME NEW i \in Tasks, PutFileKey(i) PROVE DiskInv'
  <2> SUFFICES ASSUME global_file_number' < FileNames PROVE NumberInv' /\ ChunksDurable'
    BY <1>0 DEF DiskInv
  <2> DEFINE n == task[i].number
             new == [table |-> Table(i).name, part |-> task[i].part, name |-> n,
                     row_count |-> Len(task[i].chunk)]
             c == [table |-> Table(i).name, part |-> task[i].part, chunk |-> task[i].chunk]
  <2>1. /\ UNCHANGED <<files, global_file_number>> /\ task[i].pc = "put"
        /\ global_file_number < FileNames
    BY <1>8 DEF PutFileKey
  <2>2. NumberInv /\ ChunksDurable
    BY <2>1 DEF DiskInv
  <2>3. /\ n \in 1 .. global_file_number /\ \A k \in file_keys : k.name # n
        /\ files[n].complete /\ files[n].chunk = task[i].chunk
    BY <2>1, <2>2 DEF NumberInv, HasNumber
  <2>4. FileName(i) = n
    BY <1>0, <2>1, <2>3, NameIsNumber DEF FileName, ShapeInv
  <2>5. file_keys' = file_keys \union {new} /\ put' = put \union {c}
    BY <1>8, <2>3, <2>4 DEF PutFileKey
  <2>6. /\ task'[i].pc = "open" /\ task'[i].number = n
        /\ \A j \in Tasks : j # i => task'[j] = task[j]
    BY <1>0, <1>8 DEF PutFileKey, ShapeInv, Idle
  <2>7. /\ new.name = n /\ new.row_count = Len(files[n].chunk)
        /\ [table |-> new.table, part |-> new.part, chunk |-> files[n].chunk] = c
        /\ files[new.name].chunk = c.chunk /\ new.table = c.table /\ new.part = c.part
    BY <2>3
  <2>8. ChunksDurable'
    <3> HIDE DEF new, c
    <3>1. \A k \in file_keys' :
            /\ files'[k.name].complete
            /\ k.row_count = Len(files'[k.name].chunk)
            /\ [table |-> k.table, part |-> k.part, chunk |-> files'[k.name].chunk] \in put'
      BY <2>1, <2>2, <2>3, <2>5, <2>7 DEF ChunksDurable
    <3>2. \A d \in put' : \E k \in file_keys' :
            files'[k.name].chunk = d.chunk /\ k.table = d.table /\ k.part = d.part
      BY <2>1, <2>2, <2>5, <2>7 DEF ChunksDurable
    <3>3. \A j, k \in file_keys' : j.name = k.name => j = k
      BY <2>1, <2>2, <2>3, <2>5, <2>7 DEF ChunksDurable
    <3> QED BY <3>1, <3>2, <3>3 DEF ChunksDurable
  <2>9. NumberInv'
    <3> HIDE DEF new, c
    <3> QED BY <2>1, <2>2, <2>3, <2>5, <2>6, <2>7 DEF NumberInv, HasNumber
  <2> QED BY <2>8, <2>9
<1>9. CASE \/ \E t \in Tables, s \in Schemas, n \in 1 .. Partitions : RegisterTable(t, s, n)
           \/ \E t \in Tables : DeleteTable(t) \/ GetTable(t)
           \/ OpenDatabase
  BY <1>1, <1>9 DEF RegisterTable, DeleteTable, GetTable, OpenDatabase
<1>10. CASE UNCHANGED vars
  BY <1>1, <1>10
<1>11. \A i \in Tasks : WriteRecordBatch(i) => task[i].pc = "write"
  BY DEF WriteRecordBatch
<1> QED BY <1>2, <1>3, <1>4, <1>5, <1>6, <1>7, <1>8, <1>9, <1>10, <1>11 DEF Next

\* get_next_file_number only counts up, across crashes too.
LEMMA NumbersGrow ==
  ASSUME ShapeInv, Next
  PROVE  global_file_number' \in {global_file_number, global_file_number + 1}
BY DEF Next, RegisterTable, DeleteTable, GetTable, LoadFromFiles, ReadLines, DropTask,
   InsertColumns, GetNextFileNumber, WriteRecordBatch, PutFileKey, OpenReader, IoError,
   ReadRowNums, WriteRowNums, Crash, OpenDatabase, leveldb

(* Numbers are given out once and files are written before their keys,     *)
(* whatever crashes, I/O errors and other tasks fall between the steps.    *)
THEOREM DiskInvHolds == Spec => []DiskInv
BY InitDiskInv, StepDiskInv, PTL DEF Spec

(* A chunk whose file key PartitionedTable::insert_data wrote is on the    *)
(* disk, whole, with its row count and under one key only, through every   *)
(* crash, I/O error and interleaving of loads.                             *)
THEOREM ChunksAreDurable == Spec => []ChunksDurable
<1>1. DiskInv => ChunksDurable
  BY DEF DiskInv, ChunksDurable
<1> QED BY <1>1, DiskInvHolds, PTL

\* While the numbers fit, no step takes a key away, changes it, or touches the
\* file it names.
KeysStay == global_file_number' < FileNames =>
              \A k \in file_keys : k \in file_keys' /\ files'[k.name] = files[k.name]

LEMMA KeysKept == ASSUME DiskInv, [Next]_vars PROVE KeysStay
<1> SUFFICES ASSUME global_file_number' < FileNames, NEW k \in file_keys
             PROVE  k \in file_keys' /\ files'[k.name] = files[k.name]
  BY DEF KeysStay
<1> USE DEF vars, leveldb, bounds, history
<1>0. ShapeInv /\ FileNames \in Nat
  BY CatalogAssumption DEF DiskInv
<1>1. CASE UNCHANGED <<file_keys, files>>
  BY <1>1
<1>2. CASE Next
  <2>2. global_file_number < FileNames
    BY <1>0, <1>2, NumbersGrow DEF ShapeInv
  <2>3. NumberInv
    BY <2>2 DEF DiskInv
  <2>4. ASSUME NEW i \in Tasks, task[i].pc = "write", WriteRecordBatch(i) \/ IoError(i)
        PROVE  k \in file_keys' /\ files'[k.name] = files[k.name]
    <3>1. /\ task[i].number \in 1 .. global_file_number /\ k.name # task[i].number
          /\ k.name \in 1 .. global_file_number
      BY <2>3, <2>4 DEF NumberInv, HasNumber
    <3>2. FileName(i) = task[i].number /\ k.name \in DOMAIN files
      BY <1>0, <2>2, <3>1, NameIsNumber DEF FileName, ShapeInv
    <3> QED BY <2>4, <3>1, <3>2 DEF WriteRecordBatch, IoError
  <2>5. ASSUME NEW i \in Tasks, PutFileKey(i)
        PROVE  k \in file_keys' /\ files'[k.name] = files[k.name]
    <3>1. task[i].number \in 1 .. global_file_number /\ k.name # task[i].number
      BY <2>3, <2>5 DEF PutFileKey, NumberInv, HasNumber
    <3>2. FileName(i) = task[i].number
      BY <1>0, <2>2, <3>1, NameIsNumber DEF FileName, ShapeInv
    <3> QED BY <2>5, <3>1, <3>2 DEF PutFileKey
  <2>6. \/ UNCHANGED <<file_keys, files>>
        \/ \E i \in Tasks : PutFileKey(i)
        \/ \E i \in Tasks : task[i].pc = "write" /\ (WriteRecordBatch(i) \/ IoError(i))
    BY <1>2, ZenonT(40) DEF Next, RegisterTable, DeleteTable, GetTable, LoadFromFiles, ReadLines,
       DropTask, InsertColumns, GetNextFileNumber, WriteRecordBatch, OpenReader, IoError,
       ReadRowNums, WriteRowNums, Crash, OpenDatabase
  <2> QED BY <1>1, <2>4, <2>5, <2>6
<1> QED BY <1>1, <1>2

(* What a file key stands for never changes: while the numbers fit, no     *)
(* step takes a key away, changes it, or touches the file it names.        *)
THEOREM KeysAreForever ==
  Spec => [][global_file_number' < FileNames =>
               \A k \in file_keys : k \in file_keys' /\ files'[k.name] = files[k.name]]_vars
<1>1. DiskInv /\ [Next]_vars => KeysStay
  BY KeysKept
<1> QED BY <1>1, DiskInvHolds, PTL DEF Spec, KeysStay

-----------------------------------------------------------------------------
(* The types of the values. *)
Chunks == Seq(Nat \X Tasks \X Nat)
PartType == [columns : Seq(Chunks), chunk_nums : Nat, row_nums : Nat, readers : Seq(Nat)]
TableType(n) == [name : Tables, schema : Schemas, row_nums : Nat, rc : {"SUCCESS", "FAILED"},
                 partition_tables : [0 .. n - 1 -> PartType],
                 partition_bitmap : [0 .. n - 1 -> {0, 1}]]
TableObjects == UNION {TableType(n) : n \in Nat \ {0}}
KeyType == [table : Tables, part : Nat, name : Nat, row_count : Nat]
MetaType == [schema : Schemas, partition_num : 1 .. Partitions]
TaskType == [pc : {"idle", "read", "insert", "number", "write", "put", "open", "count", "add"},
             obj : Nat, part : Nat, lines : Seq(BOOLEAN), line : Nat, chunk : Chunks,
             number : Nat, row_nums : Nat]

TypeInv ==
  /\ meta \in [Tables -> {Null} \union MetaType]
  /\ file_keys \in SUBSET KeyType /\ IsFiniteSet(file_keys)
  /\ objects \in Seq(TableObjects)
  /\ tables \in [Tables -> Nat]
  /\ task \in [Tasks -> TaskType]
  /\ global_file_number \in Nat /\ loads \in Nat

(* The tasks of a load insert into one object, each in a partition of its  *)
(* own; the cache holds objects of the tables it has them for.             *)
Active(i) == task[i].pc # "idle"
Stored(i) == task[i].pc \notin {"idle", "read"}
LoadInv ==
  /\ \A i \in Tasks : Active(i) => task[i].obj \in DOMAIN objects
  /\ \A i, j \in Tasks : Active(i) /\ Active(j) =>
       /\ task[i].obj = task[j].obj
       /\ i # j => task[i].part # task[j].part
  /\ \A i \in Tasks : Stored(i) => /\ task[i].part \in DOMAIN Table(i).partition_tables
                                   /\ task[i].chunk # <<>>
  /\ \A i \in Tasks : task[i].line <= Len(task[i].lines)
  /\ \A t \in Tables : tables[t] # 0 => /\ tables[t] \in DOMAIN objects
                                        /\ objects[tables[t]].name = t

\* What a table has, and what a change of one partition leaves.
LEMMA TableFacts ==
  ASSUME NEW x \in TableObjects
  PROVE  /\ x.name \in Tables /\ x.row_nums \in Nat /\ x.rc \in {"SUCCESS", "FAILED"}
         /\ DOMAIN x.partition_bitmap = DOMAIN x.partition_tables
         /\ \E n \in Nat \ {0} : DOMAIN x.partition_tables = 0 .. n - 1
         /\ \A p \in DOMAIN x.partition_tables : x.partition_tables[p] \in PartType
BY DEF TableObjects, TableType

SetPart(x, p, q) == [x EXCEPT !.partition_tables[p] = q]
SetBit(x, p) == [x EXCEPT !.partition_bitmap[p] = 1]
SetRows(x, r) == [x EXCEPT !.row_nums = r]

LEMMA WithPart ==
  ASSUME NEW x \in TableObjects, NEW p \in DOMAIN x.partition_tables, NEW q \in PartType
  PROVE  LET y == SetPart(x, p, q) IN
         /\ y \in TableObjects
         /\ y.name = x.name /\ y.rc = x.rc /\ y.row_nums = x.row_nums
         /\ y.partition_bitmap = x.partition_bitmap
         /\ y.partition_tables = [x.partition_tables EXCEPT ![p] = q]
<1>1. PICK n \in Nat \ {0} : x \in TableType(n)
  BY DEF TableObjects
<1>2. SetPart(x, p, q) \in TableType(n)
  BY <1>1 DEF TableType, SetPart
<1>3. SetPart(x, p, q) \in TableObjects
  BY <1>2 DEF TableObjects
<1> QED BY <1>1, <1>3 DEF TableType, SetPart

LEMMA WithBit ==
  ASSUME NEW x \in TableObjects, NEW p \in DOMAIN x.partition_tables
  PROVE  LET y == SetBit(x, p) IN
         /\ y \in TableObjects
         /\ y.name = x.name /\ y.rc = x.rc /\ y.row_nums = x.row_nums
         /\ y.partition_tables = x.partition_tables
         /\ y.partition_bitmap = [x.partition_bitmap EXCEPT ![p] = 1]
<1>1. PICK n \in Nat \ {0} : x \in TableType(n)
  BY DEF TableObjects
<1>2. SetBit(x, p) \in TableType(n)
  BY <1>1 DEF TableType, SetBit
<1>3. SetBit(x, p) \in TableObjects
  BY <1>2 DEF TableObjects
<1> QED BY <1>1, <1>3 DEF TableType, SetBit

LEMMA WithRows ==
  ASSUME NEW x \in TableObjects, NEW r \in Nat
  PROVE  LET y == SetRows(x, r) IN
         /\ y \in TableObjects
         /\ y.name = x.name /\ y.rc = x.rc /\ y.row_nums = r
         /\ y.partition_tables = x.partition_tables
         /\ y.partition_bitmap = x.partition_bitmap
<1>1. PICK n \in Nat \ {0} : x \in TableType(n)
  BY DEF TableObjects
<1>2. SetRows(x, r) \in TableType(n)
  BY <1>1 DEF TableType, SetRows
<1>3. SetRows(x, r) \in TableObjects
  BY <1>2 DEF TableObjects
<1> QED BY <1>1, <1>3 DEF TableType, SetRows

-----------------------------------------------------------------------------
(* The sum over the partitions: the recursive function of TotalRows exists *)
(* and follows its rows.                                                   *)
LEMMA LeastOf ==
  ASSUME NEW T \in SUBSET Nat, T # {}
  PROVE  \E m \in T : \A n \in T : m <= n
<1> DEFINE R == OpToRel(<, Nat)
<1>1. PICK m \in T : \A n \in T : <<n, m>> \notin R
  <2>1. IsWellFoundedOn(R, Nat)
    BY NatLessThanWellFounded
  <2> HIDE DEF R
  <2> QED BY <2>1, WFMin
<1>2. \A n \in T : ~(n < m)
  BY <1>1 DEF OpToRel
<1> QED BY <1>2

\* What fails for some m <= n fails first for 0 or right after one it holds for.
LEMMA FirstFailure ==
  ASSUME NEW n \in Nat, NEW T \in SUBSET (0 .. n), 0 \notin T, T # {}
  PROVE  \E m \in 1 .. n : m \in T /\ m - 1 \in 0 .. n /\ m - 1 \notin T
<1>1. T \in SUBSET Nat
  OBVIOUS
<1>2. PICK m \in T : \A k \in T : m <= k
  BY <1>1, LeastOf
<1>3. m \in 1 .. n /\ m - 1 \in 0 .. n
  BY <1>2
<1>4. m - 1 \notin T
  BY <1>2, <1>3
<1> QED BY <1>2, <1>3, <1>4

Sums(rows, n, s) == s = [k \in 0 .. n |-> IF k = 0 THEN 0 ELSE s[k - 1] + rows[k - 1]]

LEMMA SumExists ==
  ASSUME NEW n \in Nat, NEW rows \in [0 .. n - 1 -> Nat]
  PROVE  \E s \in [0 .. n -> Nat] : Sums(rows, n, s)
<1> DEFINE Good(m) == \E s \in [0 .. m -> Nat] : Sums(rows, m, s)
           T == {m \in 0 .. n : ~Good(m)}
<1>1. Good(0)
  <2> DEFINE s == [k \in 0 .. 0 |-> 0]
  <2>1. s \in [0 .. 0 -> Nat]
    OBVIOUS
  <2>2. Sums(rows, 0, s)
    BY DEF Sums
  <2> HIDE DEF s
  <2> QED BY <2>1, <2>2
<1>2. ASSUME NEW m \in 1 .. n, Good(m - 1) PROVE Good(m)
  <2>1. PICK s \in [0 .. m - 1 -> Nat] : Sums(rows, m - 1, s)
    BY <1>2
  <2> DEFINE r == [k \in 0 .. m |-> IF k = m THEN s[m - 1] + rows[m - 1] ELSE s[k]]
  <2>2. r \in [0 .. m -> Nat]
    <3>1. s[m - 1] \in Nat /\ rows[m - 1] \in Nat
      BY <2>1
    <3>2. \A k \in 0 .. m : k # m => k \in 0 .. m - 1
      OBVIOUS
    <3> QED BY <2>1, <3>1, <3>2
  <2>3. ASSUME NEW k \in 0 .. m PROVE r[k] = IF k = 0 THEN 0 ELSE r[k - 1] + rows[k - 1]
    <3>1. CASE k = m
      BY <3>1
    <3>2. CASE k # m
      <4>1. k \in 0 .. m - 1
        BY <3>2
      <4>2. s[k] = IF k = 0 THEN 0 ELSE s[k - 1] + rows[k - 1]
        BY <2>1, <4>1 DEF Sums
      <4>3. k # 0 => k - 1 \in 0 .. m /\ k - 1 # m
        BY <4>1
      <4> QED BY <3>2, <4>2, <4>3
    <3> QED BY <3>1, <3>2
  <2> HIDE DEF r
  <2>4. Sums(rows, m, r)
    BY <2>2, <2>3 DEF Sums
  <2> QED BY <2>2, <2>4
<1>3. T = {}
  <2> SUFFICES ASSUME T # {} PROVE FALSE
    OBVIOUS
  <2>1. T \in SUBSET (0 .. n) /\ 0 \notin T
    BY <1>1
  <2>2. PICK m \in 1 .. n : m \in T /\ m - 1 \in 0 .. n /\ m - 1 \notin T
    <3> HIDE DEF T
    <3> QED BY <2>1, FirstFailure
  <2>3. ~Good(m) /\ Good(m - 1)
    BY <2>2
  <2> HIDE DEF Good
  <2> QED BY <1>2, <2>2, <2>3
<1>4. n \in 0 .. n
  OBVIOUS
<1>5. Good(n)
  <2> HIDE DEF Good
  <2> QED BY <1>3, <1>4
<1> QED BY <1>5

LEMMA TotalIsSum ==
  ASSUME NEW n \in Nat, NEW rows \in [0 .. n - 1 -> Nat]
  PROVE  \E s \in [0 .. n -> Nat] : Sums(rows, n, s) /\ TotalRows(rows) = s[n]
<1> DEFINE s == CHOOSE r : Sums(rows, n, r)
<1>1. Cardinality(DOMAIN rows) = n
  <2>1. DOMAIN rows = 0 .. n - 1
    OBVIOUS
  <2>2. Cardinality(0 .. n - 1) = n
    BY FS_Interval
  <2> QED BY <2>1, <2>2
<1>2. TotalRows(rows) = s[n]
  BY <1>1, Zenon DEF TotalRows, Sums
<1>3. PICK r \in [0 .. n -> Nat] : Sums(rows, n, r)
  BY SumExists
<1>4. Sums(rows, n, s)
  BY <1>3
<1> HIDE DEF s
<1>5. s \in [0 .. n -> Nat]
  <2> DEFINE T == {k \in 0 .. n : s[k] \notin Nat}
  <2>1. T \in SUBSET (0 .. n) /\ 0 \notin T
    BY <1>4 DEF Sums
  <2>2. ASSUME NEW k \in 1 .. n, k - 1 \in 0 .. n, s[k - 1] \in Nat PROVE s[k] \in Nat
    <3>1. s[k] = s[k - 1] + rows[k - 1]
      BY <1>4 DEF Sums
    <3>2. rows[k - 1] \in Nat
      OBVIOUS
    <3> QED BY <2>2, <3>1, <3>2
  <2>3. ASSUME T # {} PROVE FALSE
    <3>1. PICK k \in 1 .. n : k \in T /\ k - 1 \in 0 .. n /\ k - 1 \notin T
      <4> HIDE DEF T
      <4> QED BY <2>1, <2>3, FirstFailure
    <3> QED BY <2>2, <3>1
  <2>4. \A k \in 0 .. n : s[k] \in Nat
    BY <2>3
  <2> QED BY <1>4, <2>4 DEF Sums
<1> QED BY <1>2, <1>4, <1>5

LEMMA TotalNat ==
  ASSUME NEW n \in Nat, NEW rows \in [0 .. n - 1 -> Nat]
  PROVE  TotalRows(rows) \in Nat
<1>1. PICK s \in [0 .. n -> Nat] : Sums(rows, n, s) /\ TotalRows(rows) = s[n]
  BY TotalIsSum
<1>2. n \in 0 .. n
  OBVIOUS
<1> QED BY <1>1, <1>2

\* More rows in a partition are as many more in the sum.
Raised(rows, p, d) == [rows EXCEPT ![p] = @ + d]
LEMMA TotalUpdated ==
  ASSUME NEW n \in Nat, NEW rows \in [0 .. n - 1 -> Nat], NEW p \in 0 .. n - 1, NEW d \in Nat
  PROVE  TotalRows(Raised(rows, p, d)) = TotalRows(rows) + d
<1>0. PICK more \in [0 .. n - 1 -> Nat] :
        more = Raised(rows, p, d) /\ more = [rows EXCEPT ![p] = rows[p] + d]
  <2>1. PICK r : r = rows[p] + d
    OBVIOUS
  <2>2. r \in Nat /\ [rows EXCEPT ![p] = r] \in [0 .. n - 1 -> Nat]
    BY <2>1
  <2>3. Raised(rows, p, d) = [rows EXCEPT ![p] = r]
    BY <2>1 DEF Raised
  <2> QED BY <2>1, <2>2, <2>3
<1>1. PICK s \in [0 .. n -> Nat] : Sums(rows, n, s) /\ TotalRows(rows) = s[n]
  BY TotalIsSum
<1>2. PICK r \in [0 .. n -> Nat] : Sums(more, n, r) /\ TotalRows(more) = r[n]
  BY TotalIsSum
<1> DEFINE T == {k \in 0 .. n : r[k] # s[k] + (IF p < k THEN d ELSE 0)}
<1>3. T \in SUBSET (0 .. n) /\ 0 \notin T
  BY <1>1, <1>2 DEF Sums
<1>4. ASSUME NEW k \in 1 .. n, k - 1 \in 0 .. n, r[k - 1] = s[k - 1] + (IF p < k - 1 THEN d ELSE 0)
      PROVE  r[k] = s[k] + (IF p < k THEN d ELSE 0)
  <2>1. r[k] = r[k - 1] + more[k - 1] /\ s[k] = s[k - 1] + rows[k - 1]
    BY <1>1, <1>2 DEF Sums
  <2>2. /\ rows[k - 1] \in Nat /\ s[k - 1] \in Nat
        /\ more[k - 1] = IF k - 1 = p THEN rows[k - 1] + d ELSE rows[k - 1]
    <3>1. k - 1 \in 0 .. n - 1
      OBVIOUS
    <3> QED BY <1>0, <1>4, <3>1
  <2>3. CASE p < k - 1
    BY <1>4, <2>1, <2>2, <2>3
  <2>4. CASE p = k - 1
    BY <1>4, <2>1, <2>2, <2>4
  <2>5. CASE p > k - 1
    BY <1>4, <2>1, <2>2, <2>5
  <2> QED BY <2>3, <2>4, <2>5
<1>5. ASSUME T # {} PROVE FALSE
  <2>1. PICK k \in 1 .. n : k \in T /\ k - 1 \in 0 .. n /\ k - 1 \notin T
    <3> HIDE DEF T
    <3> QED BY <1>3, <1>5, FirstFailure
  <2> QED BY <1>4, <2>1
<1>6. r[n] = s[n] + (IF p < n THEN d ELSE 0)
  <2>1. n \in 0 .. n
    OBVIOUS
  <2> QED BY <1>5, <2>1
<1> QED BY <1>0, <1>1, <1>2, <1>6

LEMMA TotalMonotone ==
  ASSUME NEW n \in Nat, NEW rows \in [0 .. n - 1 -> Nat], NEW more \in [0 .. n - 1 -> Nat],
         \A p \in 0 .. n - 1 : rows[p] <= more[p]
  PROVE  TotalRows(rows) <= TotalRows(more)
<1>1. PICK s \in [0 .. n -> Nat] : Sums(rows, n, s) /\ TotalRows(rows) = s[n]
  BY TotalIsSum
<1>2. PICK r \in [0 .. n -> Nat] : Sums(more, n, r) /\ TotalRows(more) = r[n]
  BY TotalIsSum
<1> DEFINE T == {k \in 0 .. n : ~(s[k] <= r[k])}
<1>3. T \in SUBSET (0 .. n) /\ 0 \notin T
  BY <1>1, <1>2 DEF Sums
<1>4. ASSUME NEW k \in 1 .. n, k - 1 \in 0 .. n, s[k - 1] <= r[k - 1]
      PROVE  s[k] <= r[k]
  <2>1. r[k] = r[k - 1] + more[k - 1] /\ s[k] = s[k - 1] + rows[k - 1]
    BY <1>1, <1>2 DEF Sums
  <2>2. /\ rows[k - 1] \in Nat /\ s[k - 1] \in Nat /\ r[k - 1] \in Nat
        /\ more[k - 1] \in Nat /\ rows[k - 1] <= more[k - 1]
    BY <1>4
  <2> QED BY <1>4, <2>1, <2>2
<1>5. ASSUME T # {} PROVE FALSE
  <2>1. PICK k \in 1 .. n : k \in T /\ k - 1 \in 0 .. n /\ k - 1 \notin T
    <3> HIDE DEF T
    <3> QED BY <1>3, <1>5, FirstFailure
  <2> QED BY <1>4, <2>1
<1>6. s[n] <= r[n]
  <2>1. n \in 0 .. n
    OBVIOUS
  <2> QED BY <1>5, <2>1
<1> QED BY <1>1, <1>2, <1>6

LEMMA TotalZero ==
  ASSUME NEW n \in Nat, NEW rows \in [0 .. n - 1 -> {0}]
  PROVE  TotalRows(rows) = 0
<1>0. rows \in [0 .. n - 1 -> Nat]
  OBVIOUS
<1>1. PICK s \in [0 .. n -> Nat] : Sums(rows, n, s) /\ TotalRows(rows) = s[n]
  BY <1>0, TotalIsSum
<1> DEFINE T == {k \in 0 .. n : s[k] # 0}
<1>3. T \in SUBSET (0 .. n) /\ 0 \notin T
  BY <1>1 DEF Sums
<1>4. ASSUME NEW k \in 1 .. n, k - 1 \in 0 .. n, s[k - 1] = 0 PROVE s[k] = 0
  <2>1. s[k] = s[k - 1] + rows[k - 1]
    BY <1>1 DEF Sums
  <2>2. rows[k - 1] = 0
    OBVIOUS
  <2> QED BY <1>4, <2>1, <2>2
<1>5. ASSUME T # {} PROVE FALSE
  <2>1. PICK k \in 1 .. n : k \in T /\ k - 1 \in 0 .. n /\ k - 1 \notin T
    <3> HIDE DEF T
    <3> QED BY <1>3, <1>5, FirstFailure
  <2> QED BY <1>4, <2>1
<1>6. s[n] = 0
  BY <1>5
<1> QED BY <1>1, <1>6

-----------------------------------------------------------------------------
(* get_table: the table after the first n of its keys. *)
RowsOf(x) == [p \in DOMAIN x.partition_tables |-> x.partition_tables[p].row_nums]
Distinct(keys) == \A k, l \in DOMAIN keys : keys[k].name = keys[l].name => k = l
NamesUpTo(keys, n, p) == {keys[m].name : m \in {m \in 1 .. n : keys[m].part = p}}
ReaderSet(part) == {part.readers[k] : k \in DOMAIN part.readers}
ReadersDistinct(part) ==
  \A k, l \in DOMAIN part.readers : part.readers[k] = part.readers[l] => k = l
FillPart(x, p, keys, n) ==
  LET part == x.partition_tables[p] IN
  /\ part.columns = <<>> /\ part.chunk_nums = Len(part.readers)
  /\ ReaderSet(part) = NamesUpTo(keys, n, p)
  /\ x.partition_bitmap[p] = 0 => part.readers = <<>>
  /\ Distinct(keys) => ReadersDistinct(part)
FillOK(x, t, keys, n) ==
  /\ x \in TableObjects /\ x.name = t /\ x.rc = "FAILED"
  /\ x.row_nums = TotalRows(RowsOf(x))
  /\ \A p \in DOMAIN x.partition_tables : FillPart(x, p, keys, n)

LEMMA NewTableFills ==
  ASSUME TypeInv, NEW t \in Tables, meta[t] # Null, NEW keys
  PROVE  FillOK(NewTable(t), t, keys, 0)
<1> DEFINE x == NewTable(t)  n == meta[t].partition_num
<1>1. meta[t].schema \in Schemas /\ n \in Nat \ {0}
  BY CatalogAssumption DEF TypeInv, MetaType
<1>2. NewPartition \in PartType
  BY DEF NewPartition, PartType, Chunks
<1>3. x \in TableType(n) /\ x.name = t /\ x.rc = "FAILED" /\ x.row_nums = 0
      /\ x.partition_tables = [p \in 0 .. n - 1 |-> NewPartition]
      /\ x.partition_bitmap = [p \in 0 .. n - 1 |-> 0]
  BY <1>1, <1>2 DEF NewTable, TableType
<1> HIDE DEF x, n
<1>4. x \in TableObjects
  BY <1>1, <1>3 DEF TableObjects
<1>5. RowsOf(x) \in [0 .. n - 1 -> {0}]
  BY <1>3 DEF RowsOf, NewPartition
<1>6. x.row_nums = TotalRows(RowsOf(x))
  BY <1>1, <1>3, <1>5, TotalZero
<1>7. ASSUME NEW p \in DOMAIN x.partition_tables PROVE FillPart(x, p, keys, 0)
  <2>1. x.partition_tables[p] = NewPartition
    BY <1>3, <1>7
  <2>2. NamesUpTo(keys, 0, p) = {}
    BY DEF NamesUpTo
  <2> QED BY <2>1, <2>2 DEF FillPart, NewPartition, ReaderSet, ReadersDistinct
<1> QED BY <1>3, <1>4, <1>6, <1>7 DEF FillOK, x

LEMMA AddReaderFacts ==
  ASSUME NEW part \in PartType, NEW key \in KeyType
  PROVE  LET q == AddReader(part, key) IN
         /\ q \in PartType
         /\ q.columns = part.columns /\ q.readers = Append(part.readers, key.name)
         /\ q.row_nums = part.row_nums + key.row_count
         /\ q.chunk_nums = part.chunk_nums + 1
<1>1. PICK rs, n, c : /\ rs = Append(part.readers, key.name)
                      /\ n = part.row_nums + key.row_count /\ c = part.chunk_nums + 1
  OBVIOUS
<1>2. rs \in Seq(Nat) /\ n \in Nat /\ c \in Nat
  BY <1>1 DEF PartType, KeyType
<1>3. AddReader(part, key) =
        [columns |-> part.columns, chunk_nums |-> c, row_nums |-> n, readers |-> rs]
  <2>1. AddReader(part, key) = [part EXCEPT !.readers = rs, !.row_nums = n, !.chunk_nums = c]
    BY <1>1 DEF AddReader
  <2> QED BY <2>1 DEF PartType
<1> QED BY <1>1, <1>2, <1>3 DEF PartType

LEMMA ReaderInserted ==
  ASSUME NEW x \in TableObjects, NEW key \in KeyType, key.part \in DOMAIN x.partition_tables
  PROVE  LET p == key.part
             y == InsertReader(x, key)
         IN /\ y \in TableObjects /\ y.name = x.name /\ y.rc = x.rc
            /\ y.row_nums = x.row_nums + key.row_count
            /\ y.partition_tables =
                 [x.partition_tables EXCEPT ![p] = AddReader(x.partition_tables[p], key)]
            /\ y.partition_bitmap = [x.partition_bitmap EXCEPT ![p] = 1]
<1>0. PICK p, q, r : /\ p = key.part /\ q = AddReader(x.partition_tables[p], key)
                     /\ r = x.row_nums + key.row_count
  OBVIOUS
<1>1. p \in DOMAIN x.partition_tables /\ q \in PartType /\ r \in Nat
  BY <1>0, TableFacts, AddReaderFacts DEF KeyType
<1>2. PICK y1 : y1 = SetPart(x, p, q)
  OBVIOUS
<1>3. PICK y2 : y2 = SetBit(y1, p)
  OBVIOUS
<1>4. PICK n \in Nat \ {0} : x \in TableType(n)
  BY DEF TableObjects
<1>5. InsertReader(x, key) = [x EXCEPT !.partition_tables[p] = q, !.partition_bitmap[p] = 1,
                                       !.row_nums = r]
  BY <1>0, <1>1 DEF InsertReader, AddReader
<1>6. InsertReader(x, key) = SetRows(y2, r)
  BY <1>2, <1>3, <1>4, <1>5 DEF SetPart, SetBit, SetRows, TableType
<1>7. /\ y1 \in TableObjects /\ y1.name = x.name /\ y1.rc = x.rc
      /\ y1.partition_bitmap = x.partition_bitmap
      /\ y1.partition_tables = [x.partition_tables EXCEPT ![p] = q]
  BY <1>1, <1>2, WithPart
<1>8. /\ y2 \in TableObjects /\ y2.name = y1.name /\ y2.rc = y1.rc
      /\ y2.partition_tables = y1.partition_tables
      /\ y2.partition_bitmap = [y1.partition_bitmap EXCEPT ![p] = 1]
  BY <1>1, <1>3, <1>7, WithBit
<1>9. /\ InsertReader(x, key) \in TableObjects /\ InsertReader(x, key).name = y2.name
      /\ InsertReader(x, key).rc = y2.rc /\ InsertReader(x, key).row_nums = r
      /\ InsertReader(x, key).partition_tables = y2.partition_tables
      /\ InsertReader(x, key).partition_bitmap = y2.partition_bitmap
  BY <1>1, <1>6, <1>8, WithRows
<1> QED BY <1>0, <1>7, <1>8, <1>9

\* One more reader keeps what the table owes to its keys.
LEMMA FillStep ==
  ASSUME NEW t, NEW keys \in Seq(KeyType), NEW n \in 1 .. Len(keys), NEW x,
         FillOK(x, t, keys, n - 1)
  PROVE  FillOK(InsertReader(x, keys[n]), t, keys, n)
<1>0. PICK key : key = keys[n]
  OBVIOUS
<1>1. key \in KeyType /\ n \in DOMAIN keys /\ n \in Nat \ {0}
  BY <1>0
<1>2. x \in TableObjects
  BY DEF FillOK
<1>3. \A p : NamesUpTo(keys, n, p) =
               NamesUpTo(keys, n - 1, p) \union (IF key.part = p THEN {key.name} ELSE {})
  <2> SUFFICES ASSUME NEW p
               PROVE  NamesUpTo(keys, n, p) =
                        NamesUpTo(keys, n - 1, p) \union (IF key.part = p THEN {key.name} ELSE {})
    OBVIOUS
  <2>1. 1 .. n = (1 .. n - 1) \union {n}
    BY <1>1
  <2> QED BY <1>0, <2>1 DEF NamesUpTo
<1>4. CASE key.part \notin DOMAIN x.partition_tables
  <2>1. InsertReader(x, key) = x
    BY <1>4 DEF InsertReader
  <2>2. \A p \in DOMAIN x.partition_tables : NamesUpTo(keys, n, p) = NamesUpTo(keys, n - 1, p)
    BY <1>3, <1>4
  <2> QED BY <1>0, <2>1, <2>2 DEF FillOK, FillPart
<1>5. CASE key.part \in DOMAIN x.partition_tables
  <2>0. PICK p, part, q, y : /\ p = key.part /\ part = x.partition_tables[p]
                             /\ q = AddReader(part, key) /\ y = InsertReader(x, key)
    OBVIOUS
  <2>1. /\ y \in TableObjects /\ y.name = x.name /\ y.rc = x.rc
        /\ y.row_nums = x.row_nums + key.row_count
        /\ y.partition_tables = [x.partition_tables EXCEPT ![p] = q]
        /\ y.partition_bitmap = [x.partition_bitmap EXCEPT ![p] = 1]
    BY <1>1, <1>2, <1>5, <2>0, ReaderInserted
  <2>2. /\ part \in PartType /\ q \in PartType
        /\ q.columns = part.columns /\ q.readers = Append(part.readers, key.name)
        /\ q.row_nums = part.row_nums + key.row_count
        /\ q.chunk_nums = part.chunk_nums + 1
    BY <1>1, <1>2, <1>5, <2>0, TableFacts, AddReaderFacts
  <2>3. PICK m \in Nat \ {0} : DOMAIN x.partition_tables = 0 .. m - 1
    BY <1>2, TableFacts
  <2>4. y.row_nums = TotalRows(RowsOf(y))
    <3>1. RowsOf(x) \in [0 .. m - 1 -> Nat] /\ RowsOf(y) \in [0 .. m - 1 -> Nat]
      BY <1>2, <2>1, <2>3, TableFacts DEF RowsOf, PartType
    <3>2. RowsOf(y) = [RowsOf(x) EXCEPT ![p] = RowsOf(x)[p] + key.row_count]
      BY <1>5, <2>0, <2>1, <2>2 DEF RowsOf
    <3>3. p \in 0 .. m - 1 /\ key.row_count \in Nat
      BY <1>1, <1>5, <2>0, <2>3 DEF KeyType
    <3>4. TotalRows(RowsOf(y)) = TotalRows(RowsOf(x)) + key.row_count
      <4>1. PICK rows, more, d : rows = RowsOf(x) /\ more = RowsOf(y) /\ d = key.row_count
        OBVIOUS
      <4>2. /\ m \in Nat /\ rows \in [0 .. m - 1 -> Nat] /\ more \in [0 .. m - 1 -> Nat]
            /\ p \in 0 .. m - 1 /\ d \in Nat /\ more = Raised(rows, p, d)
        BY <2>3, <3>1, <3>2, <3>3, <4>1 DEF Raised
      <4>3. TotalRows(more) = TotalRows(rows) + d
        BY <4>2, TotalUpdated
      <4> QED BY <4>1, <4>3
    <3> QED BY <2>1, <3>4 DEF FillOK
  <2>5. FillPart(y, p, keys, n)
    <3>1. FillPart(x, p, keys, n - 1)
      BY <1>5, <2>0 DEF FillOK
    <3>2. y.partition_tables[p] = q /\ y.partition_bitmap[p] = 1
      BY <1>2, <1>5, <2>0, <2>1, TableFacts
    <3>3. /\ part.readers \in Seq(Nat) /\ key.name \in Nat
          /\ DOMAIN q.readers = 1 .. Len(part.readers) + 1
          /\ Len(q.readers) = Len(part.readers) + 1
          /\ \A k \in DOMAIN part.readers : q.readers[k] = part.readers[k]
          /\ q.readers[Len(part.readers) + 1] = key.name
      <4>1. PICK rs, name : rs = part.readers /\ name = key.name
        OBVIOUS
      <4>2. rs \in Seq(Nat) /\ name \in Nat /\ q.readers = Append(rs, name)
        BY <1>1, <2>2, <4>1 DEF PartType, KeyType
      <4>3. /\ DOMAIN q.readers = 1 .. Len(rs) + 1 /\ Len(q.readers) = Len(rs) + 1
            /\ \A k \in DOMAIN rs : q.readers[k] = rs[k]
            /\ q.readers[Len(rs) + 1] = name
        BY <4>2
      <4> QED BY <4>1, <4>2, <4>3
    <3>4. DOMAIN q.readers = DOMAIN part.readers \union {Len(part.readers) + 1}
      BY <3>3
    <3>5. ReaderSet(q) = ReaderSet(part) \union {key.name}
      <4>1. \A k \in DOMAIN q.readers :
              q.readers[k] = IF k \in DOMAIN part.readers THEN part.readers[k] ELSE key.name
        BY <3>3, <3>4
      <4>2. Len(part.readers) + 1 \notin DOMAIN part.readers
        BY <3>3
      <4> QED BY <3>4, <4>1, <4>2, SMTT(30) DEF ReaderSet
    <3>6. ASSUME Distinct(keys) PROVE ReadersDistinct(q)
      <4>1. key.name \notin ReaderSet(part)
        <5>1. ReaderSet(part) = NamesUpTo(keys, n - 1, p)
          BY <2>0, <3>1 DEF FillPart
        <5>2. \A k \in 1 .. n - 1 : keys[k].name # key.name
          BY <1>0, <1>1, <3>6 DEF Distinct
        <5> QED BY <5>1, <5>2 DEF NamesUpTo
      <4>2. ReadersDistinct(part)
        BY <2>0, <3>1, <3>6 DEF FillPart
      <4> QED BY <3>3, <3>4, <4>1, <4>2 DEF ReadersDistinct, ReaderSet
    <3>7. /\ part.columns = <<>> /\ part.chunk_nums = Len(part.readers)
          /\ ReaderSet(part) = NamesUpTo(keys, n - 1, p)
      BY <2>0, <3>1 DEF FillPart
    <3>8. NamesUpTo(keys, n, p) = NamesUpTo(keys, n - 1, p) \union {key.name}
      BY <1>3, <2>0
    <3> QED BY <2>2, <3>2, <3>3, <3>5, <3>6, <3>7, <3>8 DEF FillPart
  <2>6. ASSUME NEW r \in DOMAIN y.partition_tables, r # p PROVE FillPart(y, r, keys, n)
    <3>1. /\ r \in DOMAIN x.partition_tables
          /\ y.partition_tables[r] = x.partition_tables[r]
          /\ y.partition_bitmap[r] = x.partition_bitmap[r]
      BY <1>2, <2>1, <2>6, TableFacts
    <3>2. FillPart(x, r, keys, n - 1)
      BY <3>1 DEF FillOK
    <3>3. NamesUpTo(keys, n, r) = NamesUpTo(keys, n - 1, r)
      BY <1>3, <2>0, <2>6
    <3> QED BY <3>1, <3>2, <3>3 DEF FillPart
  <2> QED BY <1>0, <2>0, <2>1, <2>4, <2>5, <2>6 DEF FillOK
<1> QED BY <1>4, <1>5

Fills(t, keys, n, f) ==
  f = [k \in 0 .. n |-> IF k = 0 THEN NewTable(t) ELSE InsertReader(f[k - 1], keys[k])]

LEMMA FillExists ==
  ASSUME NEW t, NEW keys, NEW n \in Nat
  PROVE  \E f : Fills(t, keys, n, f)
<1> DEFINE Good(m) == \E f : Fills(t, keys, m, f)
           T == {m \in 0 .. n : ~Good(m)}
<1>1. Good(0)
  <2> DEFINE f == [k \in 0 .. 0 |-> NewTable(t)]
  <2>1. Fills(t, keys, 0, f)
    BY DEF Fills
  <2> HIDE DEF f
  <2> QED BY <2>1
<1>2. ASSUME NEW m \in 1 .. n, Good(m - 1) PROVE Good(m)
  <2>1. PICK f : Fills(t, keys, m - 1, f)
    BY <1>2
  <2> DEFINE g == [k \in 0 .. m |-> IF k = m THEN InsertReader(f[m - 1], keys[m]) ELSE f[k]]
  <2>2. ASSUME NEW k \in 0 .. m
        PROVE  g[k] = IF k = 0 THEN NewTable(t) ELSE InsertReader(g[k - 1], keys[k])
    <3>1. CASE k = m
      <4>1. m - 1 \in 0 .. m /\ m - 1 # m
        OBVIOUS
      <4>2. g[m - 1] = f[m - 1] /\ k # 0
        BY <3>1, <4>1
      <4> QED BY <3>1, <4>2
    <3>2. CASE k # m
      <4>1. k \in 0 .. m - 1
        BY <3>2
      <4>2. f[k] = IF k = 0 THEN NewTable(t) ELSE InsertReader(f[k - 1], keys[k])
        BY <2>1, <4>1 DEF Fills
      <4>3. k # 0 => k - 1 \in 0 .. m /\ k - 1 # m
        BY <4>1
      <4>4. g[k] = f[k] /\ (k # 0 => g[k - 1] = f[k - 1])
        BY <3>2, <4>3
      <4> QED BY <4>2, <4>4
    <3> QED BY <3>1, <3>2
  <2>3. g = [k \in 0 .. m |-> g[k]]
    OBVIOUS
  <2> HIDE DEF g
  <2>4. Fills(t, keys, m, g)
    BY <2>2, <2>3 DEF Fills
  <2> QED BY <2>4
<1>3. ASSUME T # {} PROVE FALSE
  <2>1. T \in SUBSET (0 .. n) /\ 0 \notin T
    BY <1>1
  <2>2. PICK m \in 1 .. n : m \in T /\ m - 1 \in 0 .. n /\ m - 1 \notin T
    <3> HIDE DEF T
    <3> QED BY <1>3, <2>1, FirstFailure
  <2>3. ~Good(m) /\ Good(m - 1)
    BY <2>2
  <2> HIDE DEF Good
  <2> QED BY <1>2, <2>2, <2>3
<1>4. n \in 0 .. n
  OBVIOUS
<1>5. Good(n)
  <2> HIDE DEF Good
  <2> QED BY <1>3, <1>4
<1> QED BY <1>5

LEMMA FilledOK ==
  ASSUME TypeInv, NEW t \in Tables, meta[t] # Null, NEW keys \in Seq(KeyType),
         NEW n \in 0 .. Len(keys)
  PROVE  FillOK(Filled(t, keys)[n], t, keys, n)
<1>0. PICK len \in Nat : len = Len(keys)
  OBVIOUS
<1>1. Filled(t, keys) = CHOOSE f : Fills(t, keys, len, f)
  BY <1>0, Zenon DEF Filled, Fills
<1>2. PICK f : f = Filled(t, keys) /\ Fills(t, keys, len, f)
  BY <1>1, FillExists
<1> DEFINE T == {m \in 0 .. len : ~FillOK(f[m], t, keys, m)}
<1>3. T \in SUBSET (0 .. len) /\ 0 \notin T
  <2>1. f[0] = NewTable(t)
    BY <1>2 DEF Fills
  <2> QED BY <2>1, NewTableFills
<1>4. ASSUME T # {} PROVE FALSE
  <2>1. PICK m \in 1 .. len : m \in T /\ m - 1 \in 0 .. len /\ m - 1 \notin T
    <3> HIDE DEF T
    <3> QED BY <1>3, <1>4, FirstFailure
  <2>2. f[m] = InsertReader(f[m - 1], keys[m])
    BY <1>2, <2>1 DEF Fills
  <2>3. FillOK(f[m - 1], t, keys, m - 1)
    BY <2>1
  <2>4. m \in 1 .. Len(keys)
    BY <1>0
  <2>5. FillOK(f[m], t, keys, m)
    BY <2>2, <2>3, <2>4, FillStep
  <2> QED BY <2>1, <2>5
<1> QED BY <1>0, <1>2, <1>4

\* The keys get_table goes through are those of the table, each once.
LEMMA KeysOfTable ==
  ASSUME TypeInv, NEW t, NEW keys \in FileKeysOf(t)
  PROVE  /\ keys \in Seq(KeyType)
         /\ \A k : k \in {keys[m] : m \in DOMAIN keys} <=> k \in file_keys /\ k.table = t
         /\ (\A j, k \in file_keys : j.name = k.name => j = k) => Distinct(keys)
<1> DEFINE mine == {k \in file_keys : k.table = t}
<1>1. mine \subseteq KeyType /\ Cardinality(mine) \in Nat
  BY FS_Subset, FS_CardinalityType DEF TypeInv
<1>2. keys \in [1 .. Cardinality(mine) -> mine] /\ ToSet(keys) = mine
  BY DEF FileKeysOf
<1>3. \A i, j \in DOMAIN keys : i < j =>
        keys[i].part < keys[j].part \/ (keys[i].part = keys[j].part /\ keys[i].name < keys[j].name)
  BY DEF FileKeysOf
<1>4. keys \in Seq(KeyType)
  <2>1. PICK n \in Nat : n = Cardinality(mine)
    BY <1>1
  <2>2. keys \in [1 .. n -> KeyType]
    <3> HIDE DEF mine
    <3> QED BY <1>1, <1>2, <2>1
  <2> QED BY <2>2
<1>5. ToSet(keys) = {keys[m] : m \in DOMAIN keys}
  BY <1>4 DEF ToSet
<1>6. ASSUME \A j, k \in file_keys : j.name = k.name => j = k,
             NEW i \in DOMAIN keys, NEW j \in DOMAIN keys, keys[i].name = keys[j].name
      PROVE  i = j
  <2>1. keys[i] = keys[j] /\ keys[i] \in KeyType /\ i \in Nat /\ j \in Nat
    <3>1. keys[i] \in file_keys /\ keys[j] \in file_keys
      BY <1>2, <1>6
    <3>2. DOMAIN keys = 1 .. Len(keys) /\ Len(keys) \in Nat /\ keys[i] \in KeyType
      BY <1>4, <1>6
    <3> QED BY <1>6, <3>1, <3>2
  <2>2. keys[i].part \in Nat /\ keys[i].name \in Nat
    BY <2>1 DEF KeyType
  <2> QED BY <1>3, <2>1, <2>2
<1> QED BY <1>2, <1>4, <1>5, <1>6 DEF Distinct

\* What get_table makes of the keys: the object x, told to the caller as y.
Gets(t, keys, n, x, y) ==
  /\ keys \in FileKeysOf(t) /\ n \in 0 .. Len(keys) /\ FillOK(x, t, keys, n)
  /\ y \in TableObjects /\ y.name = t
  /\ y.rc = IF n = Len(keys) THEN "SUCCESS" ELSE "FAILED"
  /\ y.row_nums = x.row_nums /\ y.partition_tables = x.partition_tables
  /\ y.partition_bitmap = x.partition_bitmap
  /\ objects' = Append(objects, y)
  /\ tables' = IF n = Len(keys) THEN [tables EXCEPT ![t] = Len(objects) + 1] ELSE tables

LEMMA GetTableGets ==
  ASSUME TypeInv, NEW t \in Tables, GetTable(t)
  PROVE  \E keys, n, x, y : Gets(t, keys, n, x, y)
<1>1. PICK keys \in FileKeysOf(t) : \E n \in OpenedBefore(keys, meta[t].schema) :
        /\ objects' = Append(objects, IF n = Len(keys)
                                        THEN [Filled(t, keys)[n] EXCEPT !.rc = "SUCCESS"]
                                        ELSE Filled(t, keys)[n])
        /\ tables' = IF n = Len(keys) THEN [tables EXCEPT ![t] = Len(objects) + 1] ELSE tables
  BY DEF GetTable
<1>2. PICK n \in 0 .. Len(keys) :
        /\ objects' = Append(objects, IF n = Len(keys)
                                        THEN [Filled(t, keys)[n] EXCEPT !.rc = "SUCCESS"]
                                        ELSE Filled(t, keys)[n])
        /\ tables' = IF n = Len(keys) THEN [tables EXCEPT ![t] = Len(objects) + 1] ELSE tables
  BY <1>1 DEF OpenedBefore
<1>3. PICK x : x = Filled(t, keys)[n]
  OBVIOUS
<1>4. FillOK(x, t, keys, n)
  BY <1>2, <1>3, KeysOfTable, FilledOK DEF GetTable
<1>5. PICK y : y = IF n = Len(keys) THEN [x EXCEPT !.rc = "SUCCESS"] ELSE x
  OBVIOUS
<1>6. PICK m \in Nat \ {0} : x \in TableType(m)
  BY <1>4 DEF FillOK, TableObjects
<1>7. x.name = t /\ x.rc = "FAILED"
  BY <1>4 DEF FillOK
<1>8. /\ y \in TableType(m) /\ y.name = t
      /\ y.rc = IF n = Len(keys) THEN "SUCCESS" ELSE "FAILED"
      /\ y.row_nums = x.row_nums /\ y.partition_tables = x.partition_tables
      /\ y.partition_bitmap = x.partition_bitmap
  BY <1>5, <1>6, <1>7 DEF TableType
<1>9. y \in TableObjects
  BY <1>8 DEF TableObjects
<1>10. /\ objects' = Append(objects, y)
       /\ tables' = IF n = Len(keys) THEN [tables EXCEPT ![t] = Len(objects) + 1] ELSE tables
  BY <1>2, <1>3, <1>5
<1> QED BY <1>4, <1>8, <1>9, <1>10 DEF Gets

-----------------------------------------------------------------------------
(* A step of task i of a load that goes on, and what it leaves alone. *)
Moves(i, pc, number, row_nums) ==
  /\ task' \in [Tasks -> TaskType]
  /\ \A j \in Tasks : j # i => task'[j] = task[j]
  /\ task'[i].pc = pc /\ task'[i].number = number /\ task'[i].row_nums = row_nums
  /\ task'[i].obj = task[i].obj /\ task'[i].part = task[i].part
  /\ task'[i].lines = task[i].lines /\ task'[i].line = task[i].line
  /\ task'[i].chunk = task[i].chunk

Pcs == {"idle", "read", "insert", "number", "write", "put", "open", "count", "add"}

LEMMA MovesPc ==
  ASSUME TypeInv, NEW i \in Tasks, NEW p \in Pcs, task' = [task EXCEPT ![i].pc = p]
  PROVE  Moves(i, p, task[i].number, task[i].row_nums)
<1>1. PICK w : w = [task[i] EXCEPT !.pc = p]
  OBVIOUS
<1>2. task[i] \in TaskType /\ task' = [task EXCEPT ![i] = w] /\ task \in [Tasks -> TaskType]
  BY <1>1 DEF TypeInv
<1>3. w \in TaskType /\ w.pc = p /\ w.number = task[i].number /\ w.row_nums = task[i].row_nums
      /\ w.obj = task[i].obj /\ w.part = task[i].part /\ w.lines = task[i].lines
      /\ w.line = task[i].line /\ w.chunk = task[i].chunk
  BY <1>1, <1>2 DEF TaskType, Pcs
<1> QED BY <1>2, <1>3 DEF Moves

LEMMA MovesNumber ==
  ASSUME TypeInv, NEW i \in Tasks, NEW n \in Nat,
         task' = [task EXCEPT ![i] = [task[i] EXCEPT !.pc = "write", !.number = n]]
  PROVE  Moves(i, "write", n, task[i].row_nums)
<1>1. PICK w : w = [task[i] EXCEPT !.pc = "write", !.number = n]
  OBVIOUS
<1>2. task[i] \in TaskType /\ task' = [task EXCEPT ![i] = w] /\ task \in [Tasks -> TaskType]
  BY <1>1 DEF TypeInv
<1>3. w \in TaskType /\ w.pc = "write" /\ w.number = n /\ w.row_nums = task[i].row_nums
      /\ w.obj = task[i].obj /\ w.part = task[i].part /\ w.lines = task[i].lines
      /\ w.line = task[i].line /\ w.chunk = task[i].chunk
  BY <1>1, <1>2 DEF TaskType
<1> QED BY <1>2, <1>3 DEF Moves

LEMMA MovesRows ==
  ASSUME TypeInv, NEW i \in Tasks, NEW r \in Nat,
         task' = [task EXCEPT ![i] = [task[i] EXCEPT !.pc = "add", !.row_nums = r]]
  PROVE  Moves(i, "add", task[i].number, r)
<1>1. PICK w : w = [task[i] EXCEPT !.pc = "add", !.row_nums = r]
  OBVIOUS
<1>2. task[i] \in TaskType /\ task' = [task EXCEPT ![i] = w] /\ task \in [Tasks -> TaskType]
  BY <1>1 DEF TypeInv
<1>3. w \in TaskType /\ w.pc = "add" /\ w.number = task[i].number /\ w.row_nums = r
      /\ w.obj = task[i].obj /\ w.part = task[i].part /\ w.lines = task[i].lines
      /\ w.line = task[i].line /\ w.chunk = task[i].chunk
  BY <1>1, <1>2 DEF TaskType
<1> QED BY <1>2, <1>3 DEF Moves

(* One object of this process becomes y. *)
Changes(o, y) ==
  /\ objects' \in Seq(TableObjects) /\ DOMAIN objects' = DOMAIN objects
  /\ o \in DOMAIN objects /\ objects'[o] = y
  /\ \A q \in DOMAIN objects : q # o => objects'[q] = objects[q]

LEMMA ObjectChanged ==
  ASSUME objects \in Seq(TableObjects), NEW o \in DOMAIN objects, NEW y \in TableObjects,
         objects' = [objects EXCEPT ![o] = y]
  PROVE  Changes(o, y)
BY DEF Changes

\* The object and the partition of a task that holds a chunk.
LEMMA StoredFacts ==
  ASSUME TypeInv, LoadInv, NEW i \in Tasks, Stored(i)
  PROVE  /\ task[i] \in TaskType /\ task[i].obj \in DOMAIN objects
         /\ Table(i) \in TableObjects
         /\ task[i].part \in DOMAIN Table(i).partition_tables
         /\ Partition(i) \in PartType /\ task[i].chunk \in Chunks /\ task[i].chunk # <<>>
<1>1. Active(i)
  BY DEF Active, Stored
<1>2. task[i] \in TaskType /\ objects \in Seq(TableObjects) /\ task[i].chunk \in Chunks
  BY DEF TypeInv, TaskType
<1>3. /\ task[i].obj \in DOMAIN objects /\ task[i].chunk # <<>>
      /\ task[i].part \in DOMAIN Table(i).partition_tables
  BY <1>1 DEF LoadInv
<1>4. Table(i) \in TableObjects
  BY <1>2, <1>3 DEF Table
<1>5. Partition(i) \in PartType
  BY <1>3, <1>4, TableFacts DEF Partition, Table
<1> QED BY <1>2, <1>3, <1>4, <1>5

AddOpened(part, name) == [part EXCEPT !.readers = Append(@, name)]

LEMMA AddChunkFacts ==
  ASSUME NEW part \in PartType, NEW chunk \in Chunks
  PROVE  LET q == AddChunk(part, chunk) IN
         /\ q \in PartType
         /\ q.readers = part.readers /\ q.columns = Append(part.columns, chunk)
         /\ q.row_nums = part.row_nums + Len(chunk)
         /\ q.chunk_nums = part.chunk_nums + 1
<1>1. PICK cs, n, c : /\ cs = Append(part.columns, chunk)
                      /\ n = part.row_nums + Len(chunk) /\ c = part.chunk_nums + 1
  OBVIOUS
<1>2. part.columns \in Seq(Chunks) /\ part.row_nums \in Nat /\ part.chunk_nums \in Nat
      /\ Len(chunk) \in Nat
  BY DEF PartType, Chunks
<1>3. cs \in Seq(Chunks) /\ n \in Nat /\ c \in Nat
  BY <1>1, <1>2
<1>4. AddChunk(part, chunk) =
        [columns |-> cs, chunk_nums |-> c, row_nums |-> n, readers |-> part.readers]
  <2>1. AddChunk(part, chunk) = [part EXCEPT !.columns = cs, !.row_nums = n, !.chunk_nums = c]
    BY <1>1 DEF AddChunk
  <2> QED BY <2>1 DEF PartType
<1> QED BY <1>1, <1>3, <1>4 DEF PartType

LEMMA AddOpenedFacts ==
  ASSUME NEW part \in PartType, NEW name \in Nat
  PROVE  LET q == AddOpened(part, name) IN
         /\ q \in PartType
         /\ q.readers = Append(part.readers, name) /\ q.columns = part.columns
         /\ q.row_nums = part.row_nums /\ q.chunk_nums = part.chunk_nums
<1>1. PICK rs : rs = Append(part.readers, name)
  OBVIOUS
<1>2. rs \in Seq(Nat)
  BY <1>1 DEF PartType
<1>3. AddOpened(part, name) = [columns |-> part.columns, chunk_nums |-> part.chunk_nums,
                               row_nums |-> part.row_nums, readers |-> rs]
  <2>1. AddOpened(part, name) = [part EXCEPT !.readers = rs]
    BY <1>1 DEF AddOpened
  <2> QED BY <2>1 DEF PartType
<1> QED BY <1>1, <1>2, <1>3 DEF PartType

\* The partition of task i becomes q.
PartBecomes(i, q) ==
  LET x == Table(i) IN
  \E y \in TableObjects :
    /\ Changes(task[i].obj, y)
    /\ y.name = x.name /\ y.rc = x.rc /\ y.row_nums = x.row_nums
    /\ y.partition_bitmap = x.partition_bitmap
    /\ y.partition_tables = [x.partition_tables EXCEPT ![task[i].part] = q]

LEMMA PartSet ==
  ASSUME TypeInv, LoadInv, NEW i \in Tasks, Stored(i), NEW q \in PartType,
         objects' = [objects EXCEPT ![task[i].obj].partition_tables[task[i].part] = q]
  PROVE  PartBecomes(i, q)
<1>1. PICK o, p, x, y : /\ o = task[i].obj /\ p = task[i].part /\ x = objects[o]
                        /\ y = SetPart(x, p, q)
  OBVIOUS
<1>2. /\ objects \in Seq(TableObjects) /\ o \in DOMAIN objects /\ x \in TableObjects
      /\ p \in DOMAIN x.partition_tables
  BY <1>1, StoredFacts DEF TypeInv, Table
<1>3. objects' = [objects EXCEPT ![o] = y]
  BY <1>1, <1>2 DEF SetPart
<1>4. /\ y \in TableObjects
      /\ y.name = x.name /\ y.rc = x.rc /\ y.row_nums = x.row_nums
      /\ y.partition_bitmap = x.partition_bitmap
      /\ y.partition_tables = [x.partition_tables EXCEPT ![p] = q]
  BY <1>1, <1>2, WithPart
<1>5. Changes(o, y)
  BY <1>2, <1>3, <1>4, ObjectChanged
<1> QED BY <1>1, <1>4, <1>5 DEF PartBecomes, Table

LEMMA InsertColumnsDoes ==
  ASSUME TypeInv, LoadInv, NEW i \in Tasks, InsertColumns(i)
  PROVE  /\ Moves(i, "number", task[i].number, task[i].row_nums)
         /\ PartBecomes(i, AddChunk(Partition(i), task[i].chunk))
<1>1. Stored(i)
  BY DEF InsertColumns, Stored
<1>2. PICK q : q = AddChunk(Partition(i), task[i].chunk)
  OBVIOUS
<1>3. q \in PartType
  BY <1>1, <1>2, StoredFacts, AddChunkFacts
<1>4. objects' = [objects EXCEPT ![task[i].obj].partition_tables[task[i].part] = q]
  BY <1>2 DEF InsertColumns, Partition
<1>5. task' = [task EXCEPT ![i].pc = "number"]
  BY DEF InsertColumns
<1> QED BY <1>1, <1>2, <1>3, <1>4, <1>5, PartSet, MovesPc DEF Pcs

LEMMA OpenReaderDoes ==
  ASSUME TypeInv, LoadInv, NEW i \in Tasks, OpenReader(i)
  PROVE  /\ Moves(i, "count", task[i].number, task[i].row_nums)
         /\ PartBecomes(i, AddOpened(Partition(i), FileName(i)))
         /\ FileName(i) \in Nat
<1>1. Stored(i)
  BY DEF OpenReader, Stored
<1>2. PICK q : q = AddOpened(Partition(i), FileName(i))
  OBVIOUS
<1>3. FileName(i) \in Nat
  <2>1. task[i].number \in Nat /\ FileNames \in Nat \ {0}
    BY CatalogAssumption DEF TypeInv, TaskType
  <2> QED BY <2>1 DEF FileName, GetFileName
<1>4. q \in PartType
  BY <1>1, <1>2, <1>3, StoredFacts, AddOpenedFacts
<1>5. objects' = [objects EXCEPT ![task[i].obj].partition_tables[task[i].part] = q]
  BY <1>2 DEF OpenReader, Partition, AddOpened
<1>6. task' = [task EXCEPT ![i].pc = "count"]
  BY DEF OpenReader
<1> QED BY <1>1, <1>2, <1>3, <1>4, <1>5, <1>6, PartSet, MovesPc DEF Pcs

LEMMA ReadRowNumsDoes ==
  ASSUME TypeInv, LoadInv, NEW i \in Tasks, ReadRowNums(i)
  PROVE  /\ Moves(i, "add", task[i].number, Table(i).row_nums)
         /\ \E y \in TableObjects :
              LET x == Table(i) IN
              /\ Changes(task[i].obj, y)
              /\ y.name = x.name /\ y.rc = x.rc /\ y.row_nums = x.row_nums
              /\ y.partition_tables = x.partition_tables
              /\ y.partition_bitmap = [x.partition_bitmap EXCEPT ![task[i].part] = 1]
<1>0. Stored(i)
  BY DEF ReadRowNums, Stored
<1>1. PICK o, p, x, y : /\ o = task[i].obj /\ p = task[i].part /\ x = objects[o]
                        /\ y = SetBit(x, p)
  OBVIOUS
<1>2. /\ objects \in Seq(TableObjects) /\ o \in DOMAIN objects /\ x \in TableObjects
      /\ p \in DOMAIN x.partition_tables
  BY <1>0, <1>1, StoredFacts DEF TypeInv, Table
<1>3. objects' = [objects EXCEPT ![o] = y]
  BY <1>1, <1>2 DEF SetBit, ReadRowNums
<1>4. /\ y \in TableObjects
      /\ y.name = x.name /\ y.rc = x.rc /\ y.row_nums = x.row_nums
      /\ y.partition_tables = x.partition_tables
      /\ y.partition_bitmap = [x.partition_bitmap EXCEPT ![p] = 1]
  BY <1>1, <1>2, WithBit
<1>5. Changes(o, y)
  BY <1>2, <1>3, <1>4, ObjectChanged
<1>6. PICK r : r = Table(i).row_nums
  OBVIOUS
<1>7. r \in Nat
  BY <1>1, <1>2, <1>6, TableFacts DEF Table
<1>8. task' = [task EXCEPT ![i] = [task[i] EXCEPT !.pc = "add", !.row_nums = r]]
  BY <1>6 DEF ReadRowNums
<1>9. Moves(i, "add", task[i].number, r)
  BY <1>7, <1>8, MovesRows
<1> QED BY <1>1, <1>4, <1>5, <1>6, <1>9 DEF Table

LEMMA WriteRowNumsDoes ==
  ASSUME TypeInv, LoadInv, NEW i \in Tasks, WriteRowNums(i)
  PROVE  /\ Moves(i, "read", task[i].number, task[i].row_nums)
         /\ \E y \in TableObjects :
              LET x == Table(i) IN
              /\ Changes(task[i].obj, y)
              /\ y.name = x.name /\ y.rc = x.rc
              /\ y.row_nums = task[i].row_nums + Len(task[i].chunk)
              /\ y.partition_tables = x.partition_tables
              /\ y.partition_bitmap = x.partition_bitmap
<1>0. Stored(i)
  BY DEF WriteRowNums, Stored
<1>1. PICK o, r, x, y : /\ o = task[i].obj /\ r = task[i].row_nums + Len(task[i].chunk)
                        /\ x = objects[o] /\ y = SetRows(x, r)
  OBVIOUS
<1>2. objects \in Seq(TableObjects) /\ o \in DOMAIN objects /\ x \in TableObjects
  BY <1>0, <1>1, StoredFacts DEF TypeInv, Table
<1>3. r \in Nat
  <2>1. task[i] \in TaskType /\ task[i].chunk \in Chunks
    BY <1>0, StoredFacts
  <2>2. task[i].row_nums \in Nat /\ Len(task[i].chunk) \in Nat
    BY <2>1 DEF TaskType, Chunks
  <2> QED BY <1>1, <2>2
<1>4. objects' = [objects EXCEPT ![o] = y]
  BY <1>1, <1>2 DEF SetRows, WriteRowNums
<1>5. /\ y \in TableObjects /\ y.name = x.name /\ y.rc = x.rc /\ y.row_nums = r
      /\ y.partition_tables = x.partition_tables
      /\ y.partition_bitmap = x.partition_bitmap
  BY <1>1, <1>2, <1>3, WithRows
<1>6. Changes(o, y)
  BY <1>2, <1>4, <1>5, ObjectChanged
<1>7. Moves(i, "read", task[i].number, task[i].row_nums)
  BY MovesPc DEF WriteRowNums, Pcs
<1> QED BY <1>1, <1>5, <1>6, <1>7 DEF Table

\* A task ends.
Ends(i) == task' = [task EXCEPT ![i] = Idle]

LEMMA IdleType == Idle \in TaskType
BY DEF Idle, TaskType, Chunks

\* ReadLines ends the task or takes the next chunk: n lines after the line it was at.
Reads(i, n) ==
  LET me == task[i] IN
  /\ task' \in [Tasks -> TaskType]
  /\ \A j \in Tasks : j # i => task'[j] = task[j]
  /\ n \in Nat \ {0}
  /\ task'[i].pc = IF me.part \in DOMAIN Table(i).partition_tables THEN "insert" ELSE "read"
  /\ task'[i].obj = me.obj /\ task'[i].part = me.part
  /\ task'[i].line = me.line + n /\ task'[i].line <= Len(task'[i].lines)
  /\ task'[i].chunk # <<>> /\ task'[i].chunk[1] = <<loads, i, me.line + 1>>

LEMMA ReadLinesDoes ==
  ASSUME TypeInv, LoadInv, NEW i \in Tasks, ReadLines(i)
  PROVE  task[i].pc = "read" /\ (Ends(i) \/ \E n : Reads(i, n))
<1>1. PICK me, left : me = task[i] /\ left = Len(me.lines) - me.line
  OBVIOUS
<1>2. PICK n : n = IF left < chunk_size THEN left ELSE chunk_size
  OBVIOUS
<1>3. PICK pc : pc = IF me.part \in DOMAIN Table(i).partition_tables THEN "insert" ELSE "read"
  OBVIOUS
<1>4. PICK chunk : chunk = [k \in 1 .. n |-> <<loads, i, me.line + k>>]
  OBVIOUS
<1>5. PICK w : w = [me EXCEPT !.pc = pc, !.line = me.line + n, !.chunk = chunk]
  OBVIOUS
<1>6. me.pc = "read" /\ (Ends(i) \/ (n # 0 /\ task' = [task EXCEPT ![i] = w]))
  BY <1>1, <1>2, <1>3, <1>4, <1>5 DEF ReadLines, Ends
<1>7. ASSUME n # 0, task' = [task EXCEPT ![i] = w] PROVE Reads(i, n)
  <2>1. /\ me \in TaskType /\ me.line \in Nat /\ Len(me.lines) \in Nat /\ loads \in Nat
        /\ task \in [Tasks -> TaskType] /\ chunk_size \in Nat
    <3>1. task \in [Tasks -> TaskType] /\ loads \in Nat
      BY DEF TypeInv
    <3>2. me \in TaskType
      BY <1>1, <3>1
    <3>3. me.line \in Nat /\ Len(me.lines) \in Nat
      BY <3>2 DEF TaskType
    <3>4. chunk_size \in Nat
      BY CatalogAssumption
    <3> QED BY <3>1, <3>2, <3>3, <3>4
  <2>2. me.line <= Len(me.lines)
    BY <1>1 DEF LoadInv
  <2>3. n \in Nat \ {0} /\ me.line + n <= Len(me.lines)
    BY <1>1, <1>2, <1>7, <2>1, <2>2
  <2>4. chunk \in Chunks /\ chunk # <<>> /\ chunk[1] = <<loads, i, me.line + 1>>
    <3>1. \A k \in 1 .. n : <<loads, i, me.line + k>> \in Nat \X Tasks \X Nat
      BY <2>1
    <3>2. chunk \in [1 .. n -> Nat \X Tasks \X Nat]
      BY <1>4, <3>1
    <3>3. chunk \in Chunks /\ Len(chunk) = n
      BY <2>3, <3>2 DEF Chunks
    <3>4. 1 \in 1 .. n
      BY <2>3
    <3> QED BY <1>4, <2>3, <3>3, <3>4
  <2>5. /\ w \in TaskType /\ w.pc = pc /\ w.obj = me.obj /\ w.part = me.part
        /\ w.lines = me.lines /\ w.line = me.line + n /\ w.chunk = chunk
    <3>1. pc \in {"insert", "read"} /\ me.line + n \in Nat
      BY <1>3, <2>1, <2>3
    <3> QED BY <1>5, <2>1, <2>4, <3>1 DEF TaskType
  <2>6. task' \in [Tasks -> TaskType] /\ task'[i] = w /\ \A j \in Tasks : j # i => task'[j] = task[j]
    BY <1>7, <2>1, <2>5
  <2> QED BY <1>1, <1>3, <2>3, <2>4, <2>5, <2>6 DEF Reads
<1> QED BY <1>1, <1>6, <1>7

\* The steps between the columns and the reader leave the objects alone.
LEMMA DiskStepMoves ==
  ASSUME TypeInv, NEW i \in Tasks,
         \/ GetNextFileNumber(i) \/ WriteRecordBatch(i) \/ PutFileKey(i)
         \/ IoError(i) /\ task[i].pc # "number"
  PROVE  /\ Stored(i) /\ UNCHANGED <<objects, tables, dropped, miscounted, loads>>
         /\ \E p \in {"write", "put", "open", "count"}, n \in Nat :
              Moves(i, p, n, task[i].row_nums)
<1> USE DEF leveldb, bounds, history
<1>0. task[i].number \in Nat /\ global_file_number + 1 \in Nat
  BY DEF TypeInv, TaskType
<1>1. CASE GetNextFileNumber(i)
  <2>1. PICK n \in Nat : n = global_file_number + 1
    BY <1>0
  <2>2. Moves(i, "write", n, task[i].row_nums)
    BY <1>1, <2>1, MovesNumber DEF GetNextFileNumber
  <2> QED BY <1>1, <2>2 DEF GetNextFileNumber, Stored
<1>2. CASE WriteRecordBatch(i)
  <2>1. Moves(i, "put", task[i].number, task[i].row_nums)
    BY <1>2, MovesPc DEF WriteRecordBatch, Pcs
  <2> QED BY <1>0, <1>2, <2>1 DEF WriteRecordBatch, Stored
<1>3. CASE PutFileKey(i)
  <2>1. Moves(i, "open", task[i].number, task[i].row_nums)
    BY <1>3, MovesPc DEF PutFileKey, Pcs
  <2> QED BY <1>0, <1>3, <2>1 DEF PutFileKey, Stored
<1>4. CASE IoError(i) /\ task[i].pc # "number"
  <2>1. Moves(i, "count", task[i].number, task[i].row_nums)
    BY <1>4, MovesPc DEF IoError, Pcs
  <2> QED BY <1>0, <1>4, <2>1 DEF IoError, Stored
<1> QED BY <1>1, <1>2, <1>3, <1>4

\* The steps that change an object keep its name, its rc and its partitions.
LEMMA ObjectStepMoves ==
  ASSUME TypeInv, LoadInv, NEW i \in Tasks,
         InsertColumns(i) \/ OpenReader(i) \/ ReadRowNums(i) \/ WriteRowNums(i)
  PROVE  /\ Stored(i) /\ UNCHANGED <<tables, dropped, loads>>
         /\ \E p \in {"number", "count", "add", "read"} :
              \E r \in Nat : Moves(i, p, task[i].number, r)
         /\ \E y \in TableObjects :
              /\ Changes(task[i].obj, y)
              /\ y.name = Table(i).name /\ y.rc = Table(i).rc
              /\ DOMAIN y.partition_tables = DOMAIN Table(i).partition_tables
<1> USE DEF leveldb, bounds, history
<1>0. task[i].row_nums \in Nat
  BY DEF TypeInv, TaskType
<1>1. CASE InsertColumns(i)
  <2>1. Stored(i) /\ UNCHANGED <<tables, dropped, loads>>
    BY <1>1 DEF InsertColumns, Stored
  <2> QED BY <1>0, <1>1, <2>1, InsertColumnsDoes DEF PartBecomes
<1>2. CASE OpenReader(i)
  <2>1. Stored(i) /\ UNCHANGED <<tables, dropped, loads>>
    BY <1>2 DEF OpenReader, Stored
  <2> QED BY <1>0, <1>2, <2>1, OpenReaderDoes DEF PartBecomes
<1>3. CASE ReadRowNums(i)
  <2>1. Stored(i) /\ UNCHANGED <<tables, dropped, loads>>
    BY <1>3 DEF ReadRowNums, Stored
  <2>2. Table(i).row_nums \in Nat
    BY <2>1, StoredFacts, TableFacts
  <2> QED BY <1>3, <2>1, <2>2, ReadRowNumsDoes
<1>4. CASE WriteRowNums(i)
  <2>1. Stored(i) /\ UNCHANGED <<tables, dropped, loads>>
    BY <1>4 DEF WriteRowNums, Stored
  <2> QED BY <1>0, <1>4, <2>1, WriteRowNumsDoes
<1> QED BY <1>1, <1>2, <1>3, <1>4

SameObjects ==
  /\ DOMAIN objects' = DOMAIN objects
  /\ \A o \in DOMAIN objects :
       /\ objects'[o].name = objects[o].name /\ objects'[o].rc = objects[o].rc
       /\ DOMAIN objects'[o].partition_tables = DOMAIN objects[o].partition_tables

LEMMA LoadInvMoved ==
  ASSUME TypeInv, LoadInv, SameObjects, UNCHANGED <<tables, dropped>>, NEW i \in Tasks,
         Stored(i), NEW p, NEW n, NEW r, Moves(i, p, n, r)
  PROVE  LoadInv'
<1>0. \A j \in Tasks : /\ Active(j)' => Active(j)
                       /\ Stored(j)' => Stored(j)
                       /\ task'[j].obj = task[j].obj /\ task'[j].part = task[j].part
                       /\ task'[j].chunk = task[j].chunk /\ task'[j].line = task[j].line
                       /\ task'[j].lines = task[j].lines
  BY DEF Moves, Active, Stored
<1>1. \A j \in Tasks : Active(j) =>
        DOMAIN Table(j)'.partition_tables = DOMAIN Table(j).partition_tables
  BY <1>0 DEF SameObjects, LoadInv, Table
<1>2. \A j \in Tasks : Active(j)' => task'[j].obj \in DOMAIN objects'
  BY <1>0, <1>1 DEF LoadInv, SameObjects
<1>3. \A j, k \in Tasks : Active(j)' /\ Active(k)' =>
        /\ task'[j].obj = task'[k].obj
        /\ j # k => task'[j].part # task'[k].part
  BY <1>0 DEF LoadInv
<1>4. \A j \in Tasks : Stored(j)' => /\ task'[j].part \in DOMAIN Table(j)'.partition_tables
                                     /\ task'[j].chunk # <<>>
  BY <1>0, <1>1 DEF LoadInv, Stored, Active
<1>5. \A j \in Tasks : task'[j].line <= Len(task'[j].lines)
  BY <1>0 DEF LoadInv
<1>6. \A t \in Tables : tables'[t] # 0 => /\ tables'[t] \in DOMAIN objects'
                                          /\ objects'[tables'[t]].name = t
  BY DEF LoadInv, SameObjects
<1> QED BY <1>2, <1>3, <1>4, <1>5, <1>6 DEF LoadInv

LEMMA EndsFacts ==
  ASSUME TypeInv, NEW i \in Tasks, Ends(i)
  PROVE  /\ task' \in [Tasks -> TaskType] /\ task'[i] = Idle
         /\ \A j \in Tasks : j # i => task'[j] = task[j]
BY IdleType DEF Ends, TypeInv

LEMMA LoadInvEnds ==
  ASSUME TypeInv, LoadInv, UNCHANGED <<objects, tables, dropped>>, NEW i \in Tasks, Ends(i)
  PROVE  LoadInv'
<1>1. task'[i] = Idle /\ \A j \in Tasks : j # i => task'[j] = task[j]
  BY EndsFacts
<1>2. ~Active(i)' /\ ~Stored(i)' /\ task'[i].line <= Len(task'[i].lines)
  BY <1>1 DEF Active, Stored, Idle
<1> QED BY <1>1, <1>2 DEF LoadInv, Active, Stored, Table

LEMMA LoadInvReads ==
  ASSUME TypeInv, LoadInv, UNCHANGED <<objects, tables, dropped>>, NEW i \in Tasks,
         task[i].pc = "read", NEW n, Reads(i, n)
  PROVE  LoadInv'
<1>1. /\ \A j \in Tasks : j # i => task'[j] = task[j]
      /\ task'[i].obj = task[i].obj /\ task'[i].part = task[i].part
      /\ task'[i].line <= Len(task'[i].lines) /\ task'[i].chunk # <<>>
      /\ Stored(i)' => task[i].part \in DOMAIN Table(i).partition_tables
  BY DEF Reads, Stored
<1>2. Active(i)
  BY DEF Active
<1> QED BY <1>1, <1>2 DEF LoadInv, Active, Stored, Table

LEMMA LoadInvLoads ==
  ASSUME TypeInv, LoadInv, NEW o \in 1 .. Len(objects), NEW job \in Jobs, LoadFromFiles(o, job)
  PROVE  /\ task' \in [Tasks -> TaskType]
         /\ \A i \in Tasks : ~Active(i) /\ ~Stored(i)'
         /\ LoadInv'
<1>1. /\ UNCHANGED <<objects, tables, dropped>>
      /\ task' = [i \in Tasks |->
           IF i \in DOMAIN job
             THEN [Idle EXCEPT !.pc = "read", !.obj = o, !.part = job[i].part, !.lines = job[i].lines]
             ELSE Idle]
      /\ \A i \in Tasks : ~Active(i)
  BY DEF LoadFromFiles, Active, history
<1>2. ASSUME NEW i \in Tasks
      PROVE  /\ task'[i] \in TaskType
             /\ task'[i].pc \in {"idle", "read"}
             /\ task'[i].line <= Len(task'[i].lines)
             /\ task'[i].pc = "read" =>
                  i \in DOMAIN job /\ task'[i].obj = o /\ task'[i].part = job[i].part
  <2>1. CASE i \notin DOMAIN job
    <3>1. task'[i] = Idle
      BY <1>1, <2>1
    <3> QED BY <3>1, IdleType DEF Idle
  <2>2. CASE i \in DOMAIN job
    <3>1. PICK p, ls : p = job[i].part /\ ls = job[i].lines
      OBVIOUS
    <3>2. p \in Nat /\ ls \in Seq(BOOLEAN) /\ o \in Nat
      BY <2>2, <3>1, CatalogAssumption
    <3>3. task'[i] = [Idle EXCEPT !.pc = "read", !.obj = o, !.part = p, !.lines = ls]
      BY <1>1, <2>2, <3>1
    <3>4. /\ task'[i].pc = "read" /\ task'[i].obj = o /\ task'[i].part = p
          /\ task'[i].lines = ls /\ task'[i].line = 0
      BY <3>3 DEF Idle
    <3>5. task'[i] \in TaskType
      BY <3>2, <3>3, IdleType DEF TaskType
    <3> QED BY <2>2, <3>1, <3>2, <3>4, <3>5
  <2> QED BY <2>1, <2>2
<1>3. task' \in [Tasks -> TaskType]
  BY <1>1, <1>2
<1>4. \A i \in Tasks : ~Stored(i)' /\ (Active(i)' => task'[i].pc = "read")
  BY <1>2 DEF Stored, Active
<1>5. o \in DOMAIN objects
  BY DEF TypeInv
<1>6. \A i, j \in DOMAIN job : i # j => job[i].part # job[j].part
  BY CatalogAssumption
<1>7. \A i \in Tasks : Active(i)' => task'[i].obj \in DOMAIN objects'
  BY <1>1, <1>2, <1>4, <1>5
<1>8. \A i, j \in Tasks : Active(i)' /\ Active(j)' =>
        /\ task'[i].obj = task'[j].obj
        /\ i # j => task'[i].part # task'[j].part
  BY <1>2, <1>4, <1>6
<1>9. LoadInv'
  BY <1>1, <1>2, <1>4, <1>7, <1>8 DEF LoadInv
<1> QED BY <1>1, <1>3, <1>4, <1>9

LEMMA LoadInvGets ==
  ASSUME TypeInv, LoadInv, NEW t \in Tables, GetTable(t)
  PROVE  LoadInv' /\ objects' \in Seq(TableObjects) /\ tables' \in [Tables -> Nat]
<1>1. PICK keys, n, x, y : Gets(t, keys, n, x, y)
  BY GetTableGets
<1>2. PICK new : new = Len(objects) + 1
  OBVIOUS
<1>3. objects \in Seq(TableObjects) /\ y \in TableObjects /\ objects' = Append(objects, y)
  BY <1>1 DEF Gets, TypeInv
<1>4. /\ objects' \in Seq(TableObjects) /\ DOMAIN objects' = DOMAIN objects \union {new}
      /\ new \notin DOMAIN objects /\ new \in Nat \ {0} /\ objects'[new] = y
      /\ \A o \in DOMAIN objects : objects'[o] = objects[o]
  BY <1>2, <1>3
<1>5. /\ UNCHANGED <<task, dropped>> /\ tables[t] = 0 /\ y.name = t
      /\ y.rc = IF n = Len(keys) THEN "SUCCESS" ELSE "FAILED"
      /\ tables' = IF n = Len(keys) THEN [tables EXCEPT ![t] = new] ELSE tables
      /\ tables \in [Tables -> Nat]
  BY <1>1, <1>2 DEF GetTable, Gets, TypeInv, history
<1>6. \A i \in Tasks : Active(i) => Table(i)' = Table(i)
  BY <1>4, <1>5 DEF Table, LoadInv
<1>7. /\ \A i \in Tasks : Active(i)' => task'[i].obj \in DOMAIN objects'
      /\ \A i \in Tasks : Stored(i)' => /\ task'[i].part \in DOMAIN Table(i)'.partition_tables
                                        /\ task'[i].chunk # <<>>
  BY <1>4, <1>5, <1>6 DEF LoadInv, Active, Stored
<1>8. \A u \in Tables : tables'[u] # 0 => /\ tables'[u] \in DOMAIN objects'
                                          /\ objects'[tables'[u]].name = u
  BY <1>4, <1>5 DEF LoadInv
<1>9. tables' \in [Tables -> Nat]
  BY <1>4, <1>5
<1> QED BY <1>4, <1>5, <1>7, <1>8, <1>9 DEF LoadInv, Active

BaseInv == TypeInv /\ LoadInv

LEMMA InitBaseInv == Init => BaseInv
<1> SUFFICES ASSUME Init PROVE BaseInv
  OBVIOUS
<1>1. /\ meta = [t \in Tables |-> Null] /\ file_keys = {} /\ objects = <<>>
      /\ tables = [t \in Tables |-> 0] /\ task = [i \in Tasks |-> Idle]
      /\ global_file_number = 0 /\ loads = 0
  BY DEF Init
<1>2. TypeInv
  <2>1. IsFiniteSet(file_keys)
    BY <1>1, FS_EmptySet
  <2> QED BY <1>1, <2>1, IdleType DEF TypeInv
<1>3. LoadInv
  BY <1>1 DEF LoadInv, Active, Stored, Idle
<1> QED BY <1>2, <1>3 DEF BaseInv

LEMMA StepBaseInv == BaseInv /\ [Next]_vars => BaseInv'
<1> SUFFICES ASSUME TypeInv, LoadInv, [Next]_vars PROVE TypeInv' /\ LoadInv'
  BY DEF BaseInv
<1> USE DEF leveldb, bounds, history
<1>0. objects \in Seq(TableObjects) /\ task \in [Tasks -> TaskType]
  BY DEF TypeInv
<1>1. CASE UNCHANGED vars
  <2>1. LoadInv'
    BY <1>1 DEF vars, LoadInv, Active, Stored, Table
  <2> QED BY <1>1, <2>1 DEF vars, TypeInv
<1>2. ASSUME NEW t \in Tables, NEW s \in Schemas, NEW n \in 1 .. Partitions,
             RegisterTable(t, s, n)
      PROVE  TypeInv' /\ LoadInv'
  <2>1. [schema |-> s, partition_num |-> n] \in MetaType
    BY DEF MetaType
  <2>2. TypeInv'
    BY <1>2, <2>1 DEF RegisterTable, TypeInv
  <2>3. LoadInv'
    BY <1>2 DEF RegisterTable, LoadInv, Active, Stored, Table
  <2> QED BY <2>2, <2>3
<1>3. ASSUME NEW t \in Tables, DeleteTable(t) PROVE TypeInv' /\ LoadInv'
  <2>1. /\ UNCHANGED <<file_keys, objects, task, global_file_number, loads>>
        /\ meta' = [meta EXCEPT ![t] = Null] /\ tables' = [tables EXCEPT ![t] = 0]
        /\ dropped' = dropped \union {t}
    BY <1>3 DEF DeleteTable
  <2>2. TypeInv'
    BY <2>1 DEF TypeInv
  <2>3. \A u \in Tables : tables'[u] # 0 => tables'[u] = tables[u]
    BY <2>1 DEF TypeInv
  <2>4. LoadInv'
    BY <2>1, <2>3 DEF LoadInv, Active, Stored, Table
  <2> QED BY <2>2, <2>4
<1>4. ASSUME NEW t \in Tables, GetTable(t) PROVE TypeInv' /\ LoadInv'
  <2>1. LoadInv' /\ objects' \in Seq(TableObjects) /\ tables' \in [Tables -> Nat]
    BY <1>4, LoadInvGets
  <2> QED BY <1>4, <2>1 DEF GetTable, TypeInv
<1>5. ASSUME NEW o \in 1 .. Len(objects), NEW job \in Jobs, LoadFromFiles(o, job)
      PROVE  TypeInv' /\ LoadInv'
  <2>1. task' \in [Tasks -> TaskType] /\ LoadInv'
    BY <1>5, LoadInvLoads
  <2>2. UNCHANGED <<meta, file_keys, objects, tables, global_file_number>> /\ loads' = loads + 1
    BY <1>5 DEF LoadFromFiles
  <2> QED BY <2>1, <2>2 DEF TypeInv
<1>6. ASSUME NEW i \in Tasks, Ends(i),
             UNCHANGED <<meta, file_keys, objects, tables, global_file_number, loads, dropped>>
      PROVE  TypeInv' /\ LoadInv'
  <2>1. LoadInv' /\ task' \in [Tasks -> TaskType]
    BY <1>6, LoadInvEnds, EndsFacts
  <2> QED BY <1>6, <2>1 DEF TypeInv
<1>7. ASSUME NEW i \in Tasks, ReadLines(i) PROVE TypeInv' /\ LoadInv'
  <2>1. /\ task[i].pc = "read" /\ (Ends(i) \/ \E n : Reads(i, n))
        /\ UNCHANGED <<meta, file_keys, objects, tables, global_file_number, loads, dropped>>
    BY <1>7, ReadLinesDoes DEF ReadLines
  <2>2. ASSUME NEW n, Reads(i, n) PROVE TypeInv' /\ LoadInv'
    <3>1. LoadInv'
      BY <2>1, <2>2, LoadInvReads
    <3> QED BY <2>1, <2>2, <3>1 DEF TypeInv, Reads
  <2> QED BY <1>6, <2>1, <2>2
<1>8. ASSUME NEW i \in Tasks, DropTask(i) \/ (IoError(i) /\ task[i].pc = "number")
      PROVE  TypeInv' /\ LoadInv'
  BY <1>6, <1>8 DEF DropTask, IoError, Ends
<1>9. ASSUME NEW i \in Tasks,
             \/ GetNextFileNumber(i) \/ WriteRecordBatch(i) \/ PutFileKey(i)
             \/ IoError(i) /\ task[i].pc # "number"
      PROVE  TypeInv' /\ LoadInv'
  <2>1. Stored(i) /\ UNCHANGED <<objects, tables, dropped, loads>>
    BY <1>9, DiskStepMoves
  <2>2. PICK p, n : Moves(i, p, n, task[i].row_nums)
    BY <1>9, DiskStepMoves
  <2>3. LoadInv'
    BY <2>1, <2>2, LoadInvMoved DEF SameObjects
  <2>4. meta' = meta /\ global_file_number' \in Nat
    BY <1>9 DEF GetNextFileNumber, WriteRecordBatch, PutFileKey, IoError, TypeInv
  <2>5. file_keys' \in SUBSET KeyType /\ IsFiniteSet(file_keys')
    <3>1. CASE PutFileKey(i)
      <4>1. PICK name, key : /\ name = FileName(i)
                             /\ key = [table |-> Table(i).name, part |-> task[i].part, name |-> name,
                                       row_count |-> Len(task[i].chunk)]
        OBVIOUS
      <4>2. /\ Table(i).name \in Tables /\ task[i].part \in Nat /\ Len(task[i].chunk) \in Nat
        BY <2>1, StoredFacts, TableFacts DEF TaskType, Chunks
      <4>3. name \in Nat
        <5>1. task[i].number \in Nat /\ FileNames \in Nat \ {0}
          BY CatalogAssumption DEF TypeInv, TaskType
        <5> QED BY <4>1, <5>1 DEF FileName, GetFileName
      <4>4. key \in KeyType
        BY <4>1, <4>2, <4>3 DEF KeyType
      <4>5. PICK old \in SUBSET file_keys : file_keys' = old \union {key}
        BY <3>1, <4>1 DEF PutFileKey
      <4>6. file_keys \in SUBSET KeyType /\ IsFiniteSet(file_keys)
        BY DEF TypeInv
      <4>7. IsFiniteSet(old)
        BY <4>5, <4>6, FS_Subset
      <4> QED BY <4>4, <4>5, <4>6, <4>7, FS_AddElement
    <3>2. CASE file_keys' = file_keys
      BY <3>2 DEF TypeInv
    <3> QED BY <1>9, <3>1, <3>2 DEF GetNextFileNumber, WriteRecordBatch, IoError
  <2> QED BY <2>1, <2>2, <2>3, <2>4, <2>5 DEF TypeInv, Moves
<1>10. ASSUME NEW i \in Tasks,
              InsertColumns(i) \/ OpenReader(i) \/ ReadRowNums(i) \/ WriteRowNums(i)
       PROVE  TypeInv' /\ LoadInv'
  <2>1. Stored(i) /\ UNCHANGED <<tables, dropped, loads>>
    BY <1>10, ObjectStepMoves
  <2>2. PICK p, r : Moves(i, p, task[i].number, r)
    BY <1>10, ObjectStepMoves
  <2>3. PICK y : /\ Changes(task[i].obj, y)
                 /\ y.name = Table(i).name /\ y.rc = Table(i).rc
                 /\ DOMAIN y.partition_tables = DOMAIN Table(i).partition_tables
    BY <1>10, ObjectStepMoves
  <2>4. SameObjects /\ objects' \in Seq(TableObjects)
    BY <2>3 DEF SameObjects, Changes, Table
  <2>5. LoadInv'
    BY <2>1, <2>2, <2>4, LoadInvMoved
  <2>6. UNCHANGED <<meta, file_keys, global_file_number>>
    BY <1>10 DEF InsertColumns, OpenReader, ReadRowNums, WriteRowNums
  <2> QED BY <2>1, <2>2, <2>4, <2>5, <2>6 DEF TypeInv, Moves
<1>11. CASE Crash
  <2>1. /\ objects' = <<>> /\ tables' = [t \in Tables |-> 0] /\ task' = [i \in Tasks |-> Idle]
        /\ UNCHANGED <<meta, file_keys, global_file_number, loads>>
    BY <1>11 DEF Crash
  <2>2. TypeInv'
    BY <2>1, IdleType DEF TypeInv
  <2>3. LoadInv'
    BY <2>1 DEF LoadInv, Active, Stored, Idle
  <2> QED BY <2>2, <2>3
<1>12. CASE OpenDatabase
  <2>1. LoadInv'
    BY <1>12 DEF OpenDatabase, LoadInv, Active, Stored, Table
  <2> QED BY <1>12, <2>1 DEF OpenDatabase, TypeInv
<1> QED BY <1>1, <1>2, <1>3, <1>4, <1>5, <1>7, <1>8, <1>9, <1>10, <1>11, <1>12 DEF Next

-----------------------------------------------------------------------------
(* The row count.  A partition counts the rows of a chunk when the chunk   *)
(* joins its columns, the table only after the chunk's file is done.  What *)
(* is settled, s, leaves out the rows of the chunks between the two: the   *)
(* table, and what a task has read of it, is never ahead of that, and not  *)
(* behind it either while the object is not miscounted.                    *)
Pending == {"number", "write", "put", "open", "count", "add"}
Pends(i, o, p) == task[i].obj = o /\ task[i].part = p /\ task[i].pc \in Pending
Adds(i, o) == task[i].obj = o /\ task[i].pc = "add"
Settled(o, p, n) ==
  LET rows == objects[o].partition_tables[p].row_nums IN
  /\ \A i \in Tasks : Pends(i, o, p) => n + Len(task[i].chunk) = rows
  /\ (\A i \in Tasks : ~Pends(i, o, p)) => n = rows
Clean(o) == o \notin miscounted
Counted(o, n, total) == n <= total /\ (Clean(o) => n = total)
CountOK(o, s) ==
  /\ s \in [DOMAIN objects[o].partition_tables -> Nat]
  /\ \A p \in DOMAIN objects[o].partition_tables : Settled(o, p, s[p])
  /\ Counted(o, objects[o].row_nums, TotalRows(s))
  /\ \A i \in Tasks : Adds(i, o) => Counted(o, task[i].row_nums, TotalRows(s))

RaceInv == \A i, j \in Tasks : i # j /\ task[i].pc = "add" /\ task[j].pc = "add" =>
             task[i].obj \in miscounted
CountInv == RaceInv /\ \A o \in DOMAIN objects : \E s : CountOK(o, s)

LEMMA SettledTotal ==
  ASSUME BaseInv, NEW o \in DOMAIN objects, NEW s, CountOK(o, s)
  PROVE  \E n \in Nat \ {0} :
           /\ DOMAIN objects[o].partition_tables = 0 .. n - 1 /\ s \in [0 .. n - 1 -> Nat]
           /\ RowsOf(objects[o]) \in [0 .. n - 1 -> Nat]
           /\ TotalRows(s) \in Nat /\ objects[o].row_nums \in Nat
<1>1. objects[o] \in TableObjects
  BY DEF BaseInv, TypeInv
<1>2. PICK n \in Nat \ {0} : DOMAIN objects[o].partition_tables = 0 .. n - 1
  BY <1>1, TableFacts
<1>3. s \in [0 .. n - 1 -> Nat]
  BY <1>2 DEF CountOK
<1>4. TotalRows(s) \in Nat
  BY <1>3, TotalNat
<1>5. RowsOf(objects[o]) \in [0 .. n - 1 -> Nat]
  BY <1>1, <1>2, TableFacts DEF RowsOf, PartType
<1> QED BY <1>1, <1>2, <1>3, <1>4, <1>5, TableFacts

LEMMA CountsRows == BaseInv /\ CountInv => RowsCounted
<1> SUFFICES ASSUME BaseInv, CountInv, NEW o \in DOMAIN objects
             PROVE  LET table == objects[o]
                        total == TotalRows(RowsOf(objects[o]))
                    IN /\ table.row_nums <= total
                       /\ /\ o \notin miscounted
                          /\ \A p \in DOMAIN table.partition_tables :
                               ~(\E i \in Tasks : Pends(i, o, p))
                          => table.row_nums = total
  BY DEF RowsCounted, RowsOf, Pends, Pending
<1>1. PICK s : CountOK(o, s)
  BY DEF CountInv
<1>2. PICK n \in Nat \ {0} :
           /\ DOMAIN objects[o].partition_tables = 0 .. n - 1 /\ s \in [0 .. n - 1 -> Nat]
           /\ RowsOf(objects[o]) \in [0 .. n - 1 -> Nat]
           /\ TotalRows(s) \in Nat /\ objects[o].row_nums \in Nat
  BY <1>1, SettledTotal
<1>3. ASSUME NEW p \in 0 .. n - 1 PROVE s[p] <= RowsOf(objects[o])[p]
  <2>1. Settled(o, p, s[p]) /\ RowsOf(objects[o])[p] = objects[o].partition_tables[p].row_nums
    BY <1>1, <1>2, <1>3 DEF CountOK, RowsOf
  <2>2. CASE \A i \in Tasks : ~Pends(i, o, p)
    <3>1. s[p] = RowsOf(objects[o])[p]
      BY <2>1, <2>2 DEF Settled
    <3> QED BY <1>2, <3>1
  <2>3. ASSUME NEW i \in Tasks, Pends(i, o, p) PROVE s[p] <= RowsOf(objects[o])[p]
    <3>1. task[i].chunk \in Chunks
      BY DEF BaseInv, TypeInv, TaskType
    <3>2. Len(task[i].chunk) \in Nat
      BY <3>1 DEF Chunks
    <3>3. s[p] + Len(task[i].chunk) = RowsOf(objects[o])[p]
      BY <2>1, <2>3 DEF Settled
    <3> QED BY <1>2, <3>2, <3>3
  <2> QED BY <2>2, <2>3
<1>4. PICK rows : rows = RowsOf(objects[o])
  OBVIOUS
<1>5. TotalRows(s) <= TotalRows(rows) /\ TotalRows(rows) \in Nat
  <2>1. /\ n \in Nat /\ s \in [0 .. n - 1 -> Nat] /\ rows \in [0 .. n - 1 -> Nat]
        /\ \A p \in 0 .. n - 1 : s[p] <= rows[p]
    BY <1>2, <1>3, <1>4
  <2> QED BY <2>1, TotalMonotone, TotalNat
<1>6. objects[o].row_nums <= TotalRows(rows)
  BY <1>1, <1>2, <1>5 DEF CountOK, Counted
<1>7. ASSUME o \notin miscounted,
             \A p \in DOMAIN objects[o].partition_tables : ~(\E i \in Tasks : Pends(i, o, p))
      PROVE  objects[o].row_nums = TotalRows(rows)
  <2>1. \A p \in 0 .. n - 1 : s[p] = rows[p]
    BY <1>1, <1>2, <1>4, <1>7 DEF CountOK, Settled, RowsOf
  <2>2. s = rows
    BY <1>2, <1>4, <2>1
  <2> QED BY <1>1, <1>7, <2>2 DEF CountOK, Counted, Clean
<1> QED BY <1>4, <1>6, <1>7

SameRows(o) ==
  /\ DOMAIN objects'[o].partition_tables = DOMAIN objects[o].partition_tables
  /\ \A p \in DOMAIN objects[o].partition_tables :
       objects'[o].partition_tables[p].row_nums = objects[o].partition_tables[p].row_nums
  /\ objects'[o].row_nums = objects[o].row_nums /\ objects'[o].name = objects[o].name
SamePending(o) ==
  \A i \in Tasks :
    /\ \A p : Pends(i, o, p)' <=> Pends(i, o, p)
    /\ \A p : Pends(i, o, p) => task'[i].chunk = task[i].chunk
    /\ Adds(i, o)' => Adds(i, o) /\ task'[i].row_nums = task[i].row_nums

LEMMA CountKept ==
  ASSUME NEW o, NEW s, CountOK(o, s), SameRows(o), SamePending(o),
         miscounted \subseteq miscounted'
  PROVE  CountOK(o, s)'
<1>1. Clean(o)' => Clean(o)
  BY DEF Clean
<1>2. \A p \in DOMAIN objects[o].partition_tables : Settled(o, p, s[p])'
  <2> SUFFICES ASSUME NEW p \in DOMAIN objects[o].partition_tables PROVE Settled(o, p, s[p])'
    OBVIOUS
  <2>1. Settled(o, p, s[p])
    BY DEF CountOK
  <2>2. objects'[o].partition_tables[p].row_nums = objects[o].partition_tables[p].row_nums
    BY DEF SameRows
  <2>3. \A i \in Tasks : /\ Pends(i, o, p)' <=> Pends(i, o, p)
                         /\ Pends(i, o, p) => task'[i].chunk = task[i].chunk
    BY DEF SamePending
  <2> QED BY <2>1, <2>2, <2>3 DEF Settled
<1>3. Counted(o, objects[o].row_nums, TotalRows(s))'
  BY <1>1 DEF CountOK, SameRows, Counted
<1>4. \A i \in Tasks : Adds(i, o)' => Counted(o, task[i].row_nums, TotalRows(s))'
  BY <1>1 DEF CountOK, SamePending, Counted
<1> QED BY <1>2, <1>3, <1>4 DEF CountOK, SameRows

\* A task moves between the states that count alike.
LEMMA PendingMoved ==
  ASSUME NEW i \in Tasks, NEW pc, NEW n, NEW r, Moves(i, pc, n, r),
         task[i].pc \in Pending <=> pc \in Pending, pc # "add", NEW o
  PROVE  SamePending(o)
<1>1. SUFFICES ASSUME NEW j \in Tasks
               PROVE  /\ \A p : Pends(j, o, p)' <=> Pends(j, o, p)
                      /\ \A p : Pends(j, o, p) => task'[j].chunk = task[j].chunk
                      /\ Adds(j, o)' => Adds(j, o) /\ task'[j].row_nums = task[j].row_nums
  BY DEF SamePending
<1>2. CASE j # i
  <2>1. task'[j] = task[j]
    BY <1>2 DEF Moves
  <2> QED BY <2>1 DEF Pends, Adds
<1>3. CASE j = i
  <2>1. /\ task'[j].pc = pc /\ task'[j].obj = task[j].obj /\ task'[j].part = task[j].part
        /\ task'[j].chunk = task[j].chunk
    BY <1>3 DEF Moves
  <2> QED BY <1>3, <2>1 DEF Pends, Adds
<1> QED BY <1>2, <1>3

\* A task that holds no chunk starts, reads or ends.
LEMMA PendingNone ==
  ASSUME NEW i \in Tasks, task[i].pc \notin Pending, task'[i].pc \notin Pending,
         \A j \in Tasks : j # i => task'[j] = task[j], NEW o
  PROVE  SamePending(o)
<1>1. SUFFICES ASSUME NEW j \in Tasks
               PROVE  /\ \A p : Pends(j, o, p)' <=> Pends(j, o, p)
                      /\ \A p : Pends(j, o, p) => task'[j].chunk = task[j].chunk
                      /\ Adds(j, o)' => Adds(j, o) /\ task'[j].row_nums = task[j].row_nums
  BY DEF SamePending
<1>2. CASE j # i
  <2>1. task'[j] = task[j]
    BY <1>2
  <2> QED BY <2>1 DEF Pends, Adds
<1>3. CASE j = i
  BY <1>3 DEF Pends, Adds, Pending
<1> QED BY <1>2, <1>3

LEMMA CountInvKept ==
  ASSUME CountInv, DOMAIN objects' = DOMAIN objects,
         \A o \in DOMAIN objects : SameRows(o) /\ SamePending(o),
         miscounted \subseteq miscounted', RaceInv'
  PROVE  CountInv'
<1>1. ASSUME NEW o \in DOMAIN objects PROVE \E s : CountOK(o, s)'
  <2>1. PICK s : CountOK(o, s)
    BY DEF CountInv
  <2>2. CountOK(o, s)'
    BY <2>1, CountKept
  <2> QED BY <2>2
<1> QED BY <1>1 DEF CountInv

\* The only task that inserts into its partition.
LEMMA OnlyLoader ==
  ASSUME BaseInv, NEW i \in Tasks, Active(i), NEW j \in Tasks, j # i
  PROVE  ~Pends(j, task[i].obj, task[i].part)
BY DEF BaseInv, LoadInv, Pends, Pending, Active

\* The settled rows of the partition of task i grow by the rows of its chunk.
LEMMA SettleMore ==
  ASSUME BaseInv, NEW i \in Tasks, Stored(i), NEW s, CountOK(task[i].obj, s)
  PROVE  LET o == task[i].obj  p == task[i].part  d == Len(task[i].chunk) IN
         /\ d \in Nat /\ s[p] \in Nat /\ TotalRows(s) \in Nat
         /\ TotalRows(Raised(s, p, d)) = TotalRows(s) + d
         /\ Raised(s, p, d) \in [DOMAIN objects[o].partition_tables -> Nat]
         /\ Raised(s, p, d)[p] = s[p] + d
         /\ \A r \in DOMAIN objects[o].partition_tables : r # p => Raised(s, p, d)[r] = s[r]
<1>0. PICK o, p, d : o = task[i].obj /\ p = task[i].part /\ d = Len(task[i].chunk)
  OBVIOUS
<1>1. o \in DOMAIN objects /\ p \in DOMAIN objects[o].partition_tables /\ task[i].chunk \in Chunks
  BY <1>0, StoredFacts DEF BaseInv, Table
<1>2. d \in Nat
  BY <1>0, <1>1 DEF Chunks
<1>3. PICK n \in Nat \ {0} :
           /\ DOMAIN objects[o].partition_tables = 0 .. n - 1 /\ s \in [0 .. n - 1 -> Nat]
           /\ TotalRows(s) \in Nat
  BY <1>0, <1>1, SettledTotal
<1>4. p \in 0 .. n - 1 /\ s[p] \in Nat /\ s[p] + d \in Nat
  BY <1>1, <1>2, <1>3
<1>5. TotalRows(Raised(s, p, d)) = TotalRows(s) + d
  BY <1>2, <1>3, <1>4, TotalUpdated
<1>6. Raised(s, p, d) = [s EXCEPT ![p] = s[p] + d]
  BY DEF Raised
<1>7. /\ Raised(s, p, d) \in [0 .. n - 1 -> Nat] /\ Raised(s, p, d)[p] = s[p] + d
      /\ \A r \in 0 .. n - 1 : r # p => Raised(s, p, d)[r] = s[r]
  <2>1. PICK v \in Nat : v = s[p] + d
    BY <1>4
  <2> QED BY <1>3, <1>4, <1>6, <2>1
<1> QED BY <1>0, <1>2, <1>3, <1>4, <1>5, <1>7

\* The chunk of task i is settled: its last step, or no file number could be had.
LEMMA SettledOnEnd ==
  ASSUME BaseInv, NEW i \in Tasks, task[i].pc \in Pending, NEW o, o = task[i].obj,
         task'[i].pc \notin Pending, \A j \in Tasks : j # i => task'[j] = task[j],
         objects'[o].partition_tables = objects[o].partition_tables,
         NEW s, CountOK(o, s), NEW r, r = Raised(s, task[i].part, Len(task[i].chunk))
  PROVE  /\ r \in [DOMAIN objects'[o].partition_tables -> Nat]
         /\ \A p \in DOMAIN objects'[o].partition_tables : Settled(o, p, r[p])'
<1>0. Stored(i) /\ Active(i)
  BY DEF Stored, Active, Pending
<1>1. PICK q, d : q = task[i].part /\ d = Len(task[i].chunk)
  OBVIOUS
<1>2. /\ d \in Nat /\ r \in [DOMAIN objects[o].partition_tables -> Nat] /\ r[q] = s[q] + d
      /\ \A p \in DOMAIN objects[o].partition_tables : p # q => r[p] = s[p]
  BY <1>0, <1>1, SettleMore
<1>3. ASSUME NEW p \in DOMAIN objects[o].partition_tables PROVE Settled(o, p, r[p])'
  <2>0. Settled(o, p, s[p])
    BY <1>3 DEF CountOK
  <2>1. CASE p = q
    <3>1. \A j \in Tasks : ~Pends(j, o, p)'
      <4>1. \A j \in Tasks : j # i => ~Pends(j, o, p)
        BY <1>0, <1>1, <2>1, OnlyLoader
      <4> QED BY <4>1 DEF Pends
    <3>2. Pends(i, o, p)
      BY <1>1, <2>1 DEF Pends
    <3>3. r[p] = objects[o].partition_tables[p].row_nums
      BY <1>1, <1>2, <2>0, <2>1, <3>2 DEF Settled
    <3> QED BY <3>1, <3>3 DEF Settled
  <2>2. CASE p # q
    <3>1. \A j \in Tasks : /\ Pends(j, o, p)' <=> Pends(j, o, p)
                           /\ Pends(j, o, p) => task'[j].chunk = task[j].chunk
      BY <1>1, <2>2 DEF Pends
    <3>2. r[p] = s[p]
      BY <1>2, <1>3, <2>2
    <3> QED BY <2>0, <3>1, <3>2 DEF Settled
  <2> QED BY <2>1, <2>2
<1> QED BY <1>2, <1>3

\* The rest of an object whose task i no longer pends.
LEMMA OthersPending ==
  ASSUME NEW i \in Tasks, NEW o, o # task[i].obj, task'[i].obj = task[i].obj \/ task'[i].obj = 0,
         o # 0, \A j \in Tasks : j # i => task'[j] = task[j]
  PROVE  SamePending(o)
<1>1. SUFFICES ASSUME NEW j \in Tasks
               PROVE  /\ \A p : Pends(j, o, p)' <=> Pends(j, o, p)
                      /\ \A p : Pends(j, o, p) => task'[j].chunk = task[j].chunk
                      /\ Adds(j, o)' => Adds(j, o) /\ task'[j].row_nums = task[j].row_nums
  BY DEF SamePending
<1>2. CASE j # i
  <2>1. task'[j] = task[j]
    BY <1>2
  <2> QED BY <2>1 DEF Pends, Adds
<1>3. CASE j = i
  BY <1>3 DEF Pends, Adds
<1> QED BY <1>2, <1>3

LEMMA CountWrites ==
  ASSUME BaseInv, CountInv, NEW i \in Tasks, WriteRowNums(i)
  PROVE  CountInv'
<1>0. TypeInv /\ LoadInv /\ task[i].pc = "add" /\ miscounted' = miscounted
  BY DEF BaseInv, WriteRowNums, history
<1>1. Moves(i, "read", task[i].number, task[i].row_nums)
  BY <1>0, WriteRowNumsDoes
<1>2. PICK y \in TableObjects :
              LET x == Table(i) IN
              /\ Changes(task[i].obj, y)
              /\ y.name = x.name /\ y.rc = x.rc
              /\ y.row_nums = task[i].row_nums + Len(task[i].chunk)
              /\ y.partition_tables = x.partition_tables
              /\ y.partition_bitmap = x.partition_bitmap
  BY <1>0, WriteRowNumsDoes
<1>3. PICK o, d : o = task[i].obj /\ d = Len(task[i].chunk)
  OBVIOUS
<1>4. /\ DOMAIN objects' = DOMAIN objects /\ o \in DOMAIN objects /\ objects'[o] = y
      /\ \A q \in DOMAIN objects : q # o => objects'[q] = objects[q]
      /\ y.name = objects[o].name /\ y.partition_tables = objects[o].partition_tables
      /\ y.row_nums = task[i].row_nums + d
  BY <1>2, <1>3 DEF Changes, Table
<1>5. /\ \A j \in Tasks : j # i => task'[j] = task[j]
      /\ task'[i].pc = "read" /\ task'[i].obj = task[i].obj
  BY <1>1 DEF Moves
<1>6. RaceInv'
  BY <1>0, <1>5 DEF CountInv, RaceInv
<1>7. ASSUME NEW q \in DOMAIN objects, q # o PROVE \E s : CountOK(q, s)'
  <2>1. PICK s : CountOK(q, s)
    BY DEF CountInv
  <2>2. q # 0
    BY DEF BaseInv, TypeInv
  <2>3. SamePending(q)
    BY <1>3, <1>5, <1>7, <2>2, OthersPending
  <2>4. SameRows(q)
    BY <1>4, <1>7 DEF SameRows
  <2>5. CountOK(q, s)'
    BY <1>0, <2>1, <2>3, <2>4, CountKept
  <2> QED BY <2>5
<1>8. \E s : CountOK(o, s)'
  <2>1. PICK s : CountOK(o, s)
    BY <1>4 DEF CountInv
  <2>2. PICK r : r = Raised(s, task[i].part, d)
    OBVIOUS
  <2>3. /\ r \in [DOMAIN objects'[o].partition_tables -> Nat]
        /\ \A p \in DOMAIN objects'[o].partition_tables : Settled(o, p, r[p])'
    BY <1>0, <1>3, <1>4, <1>5, <2>1, <2>2, SettledOnEnd DEF Pending
  <2>4. d \in Nat /\ TotalRows(s) \in Nat /\ TotalRows(r) = TotalRows(s) + d
    BY <1>0, <1>3, <2>1, <2>2, SettleMore DEF Stored
  <2>5. Counted(o, task[i].row_nums, TotalRows(s)) /\ task[i].row_nums \in Nat
    BY <1>0, <1>3, <2>1 DEF CountOK, Adds, TypeInv, TaskType
  <2>6. Clean(o)' <=> Clean(o)
    BY <1>0 DEF Clean
  <2>7. Counted(o, objects[o].row_nums, TotalRows(r))'
    BY <1>4, <2>4, <2>5, <2>6 DEF Counted
  <2>8. ASSUME NEW j \in Tasks, Adds(j, o)'
        PROVE  Counted(o, task[j].row_nums, TotalRows(r))'
    <3>1. j # i /\ task'[j] = task[j]
      BY <1>5, <2>8 DEF Adds
    <3>2. Adds(j, o) /\ ~Clean(o)
      BY <1>0, <1>3, <2>8, <3>1 DEF Adds, CountInv, RaceInv, Clean
    <3>3. task[j].row_nums <= TotalRows(s) /\ task[j].row_nums \in Nat
      BY <1>0, <2>1, <3>2 DEF CountOK, Counted, TypeInv, TaskType
    <3>4. task[j].row_nums <= TotalRows(r)
      BY <2>4, <3>3
    <3> QED BY <2>6, <3>1, <3>2, <3>4 DEF Counted
  <2> QED BY <2>3, <2>7, <2>8 DEF CountOK
<1> QED BY <1>4, <1>6, <1>7, <1>8 DEF CountInv

LEMMA CountFails ==
  ASSUME BaseInv, CountInv, NEW i \in Tasks, IoError(i), task[i].pc = "number"
  PROVE  CountInv'
<1>0. TypeInv /\ LoadInv /\ objects' = objects /\ Stored(i)
      /\ Ends(i) /\ miscounted' = miscounted \union {task[i].obj}
  BY DEF BaseInv, IoError, Stored, Ends
<1>1. task'[i] = Idle /\ \A j \in Tasks : j # i => task'[j] = task[j]
  BY <1>0, EndsFacts
<1>2. PICK o, d : o = task[i].obj /\ d = Len(task[i].chunk)
  OBVIOUS
<1>3. o \in DOMAIN objects /\ task[i].part \in DOMAIN objects[o].partition_tables
  BY <1>0, <1>2, StoredFacts DEF Table
<1>4. task'[i].pc = "idle" /\ task'[i].obj = 0
  BY <1>1 DEF Idle
<1>5. RaceInv'
  BY <1>0, <1>1, <1>4 DEF CountInv, RaceInv
<1>6. ASSUME NEW q \in DOMAIN objects, q # o PROVE \E s : CountOK(q, s)'
  <2>1. PICK s : CountOK(q, s)
    BY DEF CountInv
  <2>2. q # 0
    BY DEF BaseInv, TypeInv
  <2>3. SamePending(q)
    BY <1>1, <1>2, <1>4, <1>6, <2>2, OthersPending
  <2>4. SameRows(q)
    BY <1>0 DEF SameRows
  <2>5. CountOK(q, s)'
    BY <1>0, <2>1, <2>3, <2>4, CountKept
  <2> QED BY <2>5
<1>7. \E s : CountOK(o, s)'
  <2>1. PICK s : CountOK(o, s)
    BY <1>3 DEF CountInv
  <2>2. PICK r : r = Raised(s, task[i].part, d)
    OBVIOUS
  <2>3. /\ r \in [DOMAIN objects'[o].partition_tables -> Nat]
        /\ \A p \in DOMAIN objects'[o].partition_tables : Settled(o, p, r[p])'
    BY <1>0, <1>1, <1>2, <1>4, <2>1, <2>2, SettledOnEnd DEF Pending
  <2>4. d \in Nat /\ TotalRows(s) \in Nat /\ TotalRows(r) = TotalRows(s) + d
    BY <1>0, <1>2, <2>1, <2>2, SettleMore
  <2>5. ~Clean(o)'
    BY <1>0, <1>2 DEF Clean
  <2>6. Counted(o, objects[o].row_nums, TotalRows(r))'
    <3>1. objects[o].row_nums <= TotalRows(s) /\ objects[o].row_nums \in Nat
      BY <1>3, <2>1, SettledTotal DEF CountOK, Counted
    <3>2. objects[o].row_nums <= TotalRows(r)
      BY <2>4, <3>1
    <3> QED BY <1>0, <2>5, <3>2 DEF Counted
  <2>7. ASSUME NEW j \in Tasks, Adds(j, o)'
        PROVE  Counted(o, task[j].row_nums, TotalRows(r))'
    <3>1. j # i /\ task'[j] = task[j]
      BY <1>1, <1>4, <2>7 DEF Adds
    <3>2. Adds(j, o)
      BY <2>7, <3>1 DEF Adds
    <3>3. task[j].row_nums <= TotalRows(s) /\ task[j].row_nums \in Nat
      BY <1>0, <2>1, <3>2 DEF CountOK, Counted, TypeInv, TaskType
    <3>4. task[j].row_nums <= TotalRows(r)
      BY <2>4, <3>3
    <3> QED BY <2>5, <3>1, <3>4 DEF Counted
  <2> QED BY <2>3, <2>6, <2>7 DEF CountOK
<1> QED BY <1>0, <1>5, <1>6, <1>7 DEF CountInv

LEMMA CountInserts ==
  ASSUME BaseInv, CountInv, NEW i \in Tasks, InsertColumns(i)
  PROVE  CountInv'
<1>0. TypeInv /\ LoadInv /\ task[i].pc = "insert" /\ miscounted' = miscounted /\ Stored(i)
      /\ Active(i)
  BY DEF BaseInv, InsertColumns, Stored, Active, history
<1>1. PICK o, p, d, q : /\ o = task[i].obj /\ p = task[i].part /\ d = Len(task[i].chunk)
                        /\ q = AddChunk(Partition(i), task[i].chunk)
  OBVIOUS
<1>2. Moves(i, "number", task[i].number, task[i].row_nums) /\ PartBecomes(i, q)
  BY <1>0, <1>1, InsertColumnsDoes
<1>3. PICK y \in TableObjects :
        /\ Changes(o, y) /\ y.name = objects[o].name /\ y.row_nums = objects[o].row_nums
        /\ y.partition_tables = [objects[o].partition_tables EXCEPT ![p] = q]
  BY <1>1, <1>2 DEF PartBecomes, Table
<1>4. /\ DOMAIN objects' = DOMAIN objects /\ o \in DOMAIN objects /\ objects'[o] = y
      /\ \A u \in DOMAIN objects : u # o => objects'[u] = objects[u]
  BY <1>3 DEF Changes
<1>5. /\ \A j \in Tasks : j # i => task'[j] = task[j]
      /\ task'[i].pc = "number" /\ task'[i].obj = o /\ task'[i].part = p
      /\ task'[i].chunk = task[i].chunk
  BY <1>1, <1>2 DEF Moves
<1>6. RaceInv'
  BY <1>0, <1>5 DEF CountInv, RaceInv
<1>7. ASSUME NEW u \in DOMAIN objects, u # o PROVE \E s : CountOK(u, s)'
  <2>1. PICK s : CountOK(u, s)
    BY DEF CountInv
  <2>2. u # 0
    BY DEF BaseInv, TypeInv
  <2>3. SamePending(u)
    BY <1>1, <1>5, <1>7, <2>2, OthersPending
  <2>4. SameRows(u)
    BY <1>4, <1>7 DEF SameRows
  <2>5. CountOK(u, s)'
    BY <1>0, <2>1, <2>3, <2>4, CountKept
  <2> QED BY <2>5
<1>8. \E s : CountOK(o, s)'
  <2>1. PICK s : CountOK(o, s)
    BY <1>4 DEF CountInv
  <2>2. /\ q.row_nums = Partition(i).row_nums + d /\ p \in DOMAIN objects[o].partition_tables
        /\ Partition(i) = objects[o].partition_tables[p]
    BY <1>0, <1>1, StoredFacts, AddChunkFacts DEF Table, Partition
  <2>3. /\ DOMAIN y.partition_tables = DOMAIN objects[o].partition_tables
        /\ y.partition_tables[p] = q
        /\ \A v \in DOMAIN objects[o].partition_tables : v # p =>
             y.partition_tables[v] = objects[o].partition_tables[v]
    BY <1>3, <2>2
  <2>4. ASSUME NEW v \in DOMAIN objects[o].partition_tables PROVE Settled(o, v, s[v])'
    <3>0. Settled(o, v, s[v])
      BY <2>1, <2>4 DEF CountOK
    <3>1. CASE v = p
      <4>1. \A j \in Tasks : ~Pends(j, o, p)
        BY <1>0, <1>1, OnlyLoader DEF Pends, Pending
      <4>2. s[p] = objects[o].partition_tables[p].row_nums
        BY <3>0, <3>1, <4>1 DEF Settled
      <4>3. Pends(i, o, p)' /\ \A j \in Tasks : j # i => ~Pends(j, o, p)'
        BY <1>5, <4>1 DEF Pends, Pending
      <4>4. s[p] + Len(task'[i].chunk) = objects'[o].partition_tables[p].row_nums
        BY <1>1, <1>4, <1>5, <2>2, <2>3, <4>2
      <4> QED BY <3>1, <4>3, <4>4 DEF Settled
    <3>2. CASE v # p
      <4>1. \A j \in Tasks : /\ Pends(j, o, v)' <=> Pends(j, o, v)
                             /\ Pends(j, o, v) => task'[j].chunk = task[j].chunk
        BY <1>1, <1>5, <3>2 DEF Pends
      <4>2. objects'[o].partition_tables[v].row_nums = objects[o].partition_tables[v].row_nums
        BY <1>4, <2>3, <3>2
      <4> QED BY <3>0, <4>1, <4>2 DEF Settled
    <3> QED BY <3>1, <3>2
  <2>5. Clean(o)' <=> Clean(o)
    BY <1>0 DEF Clean
  <2>6. Counted(o, objects[o].row_nums, TotalRows(s))'
    BY <1>3, <1>4, <2>1, <2>5 DEF CountOK, Counted
  <2>7. \A j \in Tasks : Adds(j, o)' => Adds(j, o) /\ task'[j].row_nums = task[j].row_nums
    BY <1>5 DEF Adds
  <2>8. \A j \in Tasks : Adds(j, o)' => Counted(o, task[j].row_nums, TotalRows(s))'
    BY <2>1, <2>5, <2>7 DEF CountOK, Counted
  <2>9. CountOK(o, s)'
    BY <1>4, <2>1, <2>3, <2>4, <2>6, <2>8 DEF CountOK
  <2> QED BY <2>9
<1> QED BY <1>4, <1>6, <1>7, <1>8 DEF CountInv

LEMMA CountOpens ==
  ASSUME BaseInv, CountInv, NEW i \in Tasks, OpenReader(i)
  PROVE  CountInv'
<1>0. TypeInv /\ LoadInv /\ task[i].pc = "open" /\ miscounted' = miscounted /\ Stored(i)
  BY DEF BaseInv, OpenReader, Stored, history
<1>1. PICK o, p, q : /\ o = task[i].obj /\ p = task[i].part
                     /\ q = AddOpened(Partition(i), FileName(i))
  OBVIOUS
<1>2. /\ Moves(i, "count", task[i].number, task[i].row_nums) /\ PartBecomes(i, q)
      /\ FileName(i) \in Nat
  BY <1>0, <1>1, OpenReaderDoes
<1>3. PICK y \in TableObjects :
        /\ Changes(o, y) /\ y.name = objects[o].name /\ y.row_nums = objects[o].row_nums
        /\ y.partition_tables = [objects[o].partition_tables EXCEPT ![p] = q]
  BY <1>1, <1>2 DEF PartBecomes, Table
<1>4. /\ DOMAIN objects' = DOMAIN objects /\ o \in DOMAIN objects /\ objects'[o] = y
      /\ \A u \in DOMAIN objects : u # o => objects'[u] = objects[u]
  BY <1>3 DEF Changes
<1>5. /\ q.row_nums = objects[o].partition_tables[p].row_nums
      /\ p \in DOMAIN objects[o].partition_tables
  BY <1>0, <1>1, <1>2, StoredFacts, AddOpenedFacts DEF Table, Partition
<1>6. \A u \in DOMAIN objects : SameRows(u)
  BY <1>3, <1>4, <1>5 DEF SameRows
<1>7. \A u : SamePending(u)
  BY <1>0, <1>2, PendingMoved DEF Pending
<1>8. RaceInv'
  BY <1>0, <1>2 DEF CountInv, RaceInv, Moves
<1> QED BY <1>0, <1>4, <1>6, <1>7, <1>8, CountInvKept

LEMMA CountReads ==
  ASSUME BaseInv, CountInv, NEW i \in Tasks, ReadRowNums(i)
  PROVE  CountInv'
<1>0. /\ TypeInv /\ LoadInv /\ task[i].pc = "count" /\ Stored(i) /\ Active(i)
      /\ miscounted' = IF \E j \in Tasks \ {i} : task[j].pc = "add"
                         THEN miscounted \union {task[i].obj} ELSE miscounted
  BY DEF BaseInv, ReadRowNums, Stored, Active
<1>1. PICK o, n : o = task[i].obj /\ n = objects[o].row_nums
  OBVIOUS
<1>2. Moves(i, "add", task[i].number, n)
  BY <1>0, <1>1, ReadRowNumsDoes DEF Table
<1>3. PICK y \in TableObjects :
        /\ Changes(o, y) /\ y.name = objects[o].name /\ y.row_nums = objects[o].row_nums
        /\ y.partition_tables = objects[o].partition_tables
  BY <1>0, <1>1, ReadRowNumsDoes DEF Table
<1>4. /\ DOMAIN objects' = DOMAIN objects /\ o \in DOMAIN objects /\ objects'[o] = y
      /\ \A u \in DOMAIN objects : u # o => objects'[u] = objects[u]
  BY <1>3 DEF Changes
<1>5. \A u \in DOMAIN objects : SameRows(u)
  BY <1>3, <1>4 DEF SameRows
<1>6. /\ \A j \in Tasks : j # i => task'[j] = task[j]
      /\ task'[i].pc = "add" /\ task'[i].obj = o /\ task'[i].part = task[i].part
      /\ task'[i].chunk = task[i].chunk /\ task'[i].row_nums = n
  BY <1>1, <1>2 DEF Moves
<1>7. RaceInv'
  <2> SUFFICES ASSUME NEW j \in Tasks, NEW k \in Tasks, j # k, task'[j].pc = "add",
                      task'[k].pc = "add"
               PROVE  task'[j].obj \in miscounted'
    BY DEF RaceInv
  <2>1. CASE j # i /\ k # i
    BY <1>0, <1>6, <2>1 DEF CountInv, RaceInv
  <2>2. CASE j = i \/ k = i
    <3>1. PICK l \in Tasks : l # i /\ task[l].pc = "add" /\ task'[j].obj \in {o, task[l].obj}
      BY <1>6, <2>2
    <3>2. task[l].obj = o
      BY <1>0, <1>1, <3>1 DEF LoadInv, Active
    <3> QED BY <1>0, <1>1, <3>1, <3>2
  <2> QED BY <2>1, <2>2
<1>8. ASSUME NEW u \in DOMAIN objects PROVE \E s : CountOK(u, s)'
  <2>1. PICK s : CountOK(u, s)
    BY DEF CountInv
  <2>2. Clean(u)' => Clean(u)
    BY <1>0 DEF Clean
  <2>3. ASSUME NEW p \in DOMAIN objects[u].partition_tables PROVE Settled(u, p, s[p])'
    <3>1. Settled(u, p, s[p])
      BY <2>1, <2>3 DEF CountOK
    <3>2. \A j \in Tasks : /\ Pends(j, u, p)' <=> Pends(j, u, p)
                           /\ Pends(j, u, p) => task'[j].chunk = task[j].chunk
      BY <1>0, <1>1, <1>6 DEF Pends, Pending
    <3>3. objects'[u].partition_tables[p].row_nums = objects[u].partition_tables[p].row_nums
      BY <1>5, <2>3 DEF SameRows
    <3> QED BY <3>1, <3>2, <3>3 DEF Settled
  <2>4. Counted(u, objects[u].row_nums, TotalRows(s))'
    BY <1>5, <2>1, <2>2 DEF CountOK, SameRows, Counted
  <2>5. ASSUME NEW j \in Tasks, Adds(j, u)'
        PROVE  Counted(u, task[j].row_nums, TotalRows(s))'
    <3>1. CASE j = i
      BY <1>1, <1>6, <2>1, <2>2, <2>5, <3>1 DEF CountOK, Counted, Adds
    <3>2. CASE j # i
      <4>1. task'[j] = task[j] /\ Adds(j, u)
        BY <1>6, <2>5, <3>2 DEF Adds
      <4> QED BY <2>1, <2>2, <4>1 DEF CountOK, Counted
    <3> QED BY <3>1, <3>2
  <2>6. CountOK(u, s)'
    BY <1>5, <2>1, <2>3, <2>4, <2>5 DEF CountOK, SameRows
  <2> QED BY <2>6
<1> QED BY <1>4, <1>7, <1>8 DEF CountInv

LEMMA CountGets ==
  ASSUME BaseInv, CountInv, NEW t \in Tables, GetTable(t)
  PROVE  CountInv'
<1>0. TypeInv /\ LoadInv /\ UNCHANGED <<miscounted, task>>
  BY DEF BaseInv, GetTable, history
<1>1. PICK keys, n, x, y : Gets(t, keys, n, x, y)
  BY <1>0, GetTableGets
<1>2. PICK new : new = Len(objects) + 1
  OBVIOUS
<1>3. /\ objects \in Seq(TableObjects) /\ y \in TableObjects /\ objects' = Append(objects, y)
      /\ y.row_nums = TotalRows(RowsOf(y))
  BY <1>0, <1>1 DEF Gets, TypeInv, FillOK, RowsOf
<1>4. /\ DOMAIN objects' = DOMAIN objects \union {new}
      /\ new \notin DOMAIN objects /\ new \in Nat \ {0} /\ objects'[new] = y
      /\ \A o \in DOMAIN objects : objects'[o] = objects[o]
  BY <1>2, <1>3
<1>5. RaceInv'
  BY <1>0 DEF CountInv, RaceInv
<1>6. ASSUME NEW o \in DOMAIN objects PROVE \E s : CountOK(o, s)'
  <2>1. PICK s : CountOK(o, s)
    BY DEF CountInv
  <2>2. SameRows(o) /\ SamePending(o)
    BY <1>0, <1>4 DEF SameRows, SamePending, Pends, Adds
  <2>3. CountOK(o, s)'
    BY <1>0, <2>1, <2>2, CountKept
  <2> QED BY <2>3
<1>7. CountOK(new, RowsOf(y))'
  <2>1. \A i \in Tasks : ~Adds(i, new)' /\ \A p : ~Pends(i, new, p)'
    BY <1>0, <1>4 DEF Adds, Pends, Pending, LoadInv, Active
  <2>2. RowsOf(y) \in [DOMAIN y.partition_tables -> Nat]
    BY <1>3, TableFacts DEF RowsOf, PartType
  <2>3. \A p \in DOMAIN y.partition_tables : RowsOf(y)[p] = y.partition_tables[p].row_nums
    BY DEF RowsOf
  <2>4. y.row_nums \in Nat
    BY <1>3, TableFacts
  <2>5. Counted(new, objects[new].row_nums, TotalRows(RowsOf(y)))'
    <3>1. PICK v : v = y.row_nums
      OBVIOUS
    <3>2. v <= v /\ v = TotalRows(RowsOf(y))
      BY <1>3, <2>4, <3>1
    <3> QED BY <1>4, <3>1, <3>2 DEF Counted
  <2>6. \A p \in DOMAIN y.partition_tables : Settled(new, p, RowsOf(y)[p])'
    BY <1>4, <2>1, <2>3 DEF Settled
  <2> QED BY <1>4, <2>1, <2>2, <2>5, <2>6 DEF CountOK
<1> QED BY <1>4, <1>5, <1>6, <1>7 DEF CountInv

LEMMA StepCountInv ==
  ASSUME BaseInv, CountInv, [Next]_vars
  PROVE  CountInv'
<1> USE DEF leveldb, bounds, history
<1>0. TypeInv /\ LoadInv /\ task \in [Tasks -> TaskType]
  BY DEF BaseInv, TypeInv
<1>1. CASE UNCHANGED <<objects, task, miscounted>>
  <2>1. RaceInv'
    BY <1>1 DEF CountInv, RaceInv
  <2>2. \A o \in DOMAIN objects : SameRows(o) /\ SamePending(o)
    BY <1>1 DEF SameRows, SamePending, Pends, Adds
  <2> QED BY <1>1, <2>1, <2>2, CountInvKept
<1>2. ASSUME NEW t \in Tables, GetTable(t) PROVE CountInv'
  BY <1>2, CountGets
<1>3. ASSUME NEW o \in 1 .. Len(objects), NEW job \in Jobs, LoadFromFiles(o, job) PROVE CountInv'
  <2>1. UNCHANGED <<objects, miscounted>>
    BY <1>3 DEF LoadFromFiles
  <2>2. \A i \in Tasks : task[i].pc \notin Pending /\ task'[i].pc \notin Pending
    BY <1>0, <1>3, LoadInvLoads DEF Active, Stored, Pending
  <2>3. \A u : SamePending(u)
    BY <2>2 DEF SamePending, Pends, Adds, Pending
  <2>4. \A u \in DOMAIN objects : SameRows(u)
    BY <2>1 DEF SameRows
  <2>5. RaceInv'
    BY <2>2 DEF RaceInv, Pending
  <2> QED BY <2>1, <2>3, <2>4, <2>5, CountInvKept
<1>4. ASSUME NEW i \in Tasks, ReadLines(i) \/ DropTask(i) PROVE CountInv'
  <2>1. UNCHANGED <<objects, miscounted>> /\ task[i].pc = "read"
    BY <1>4 DEF ReadLines, DropTask
  <2>2. task'[i].pc \in {"idle", "read", "insert"} /\ \A j \in Tasks : j # i => task'[j] = task[j]
    <3>1. CASE Ends(i)
      BY <1>0, <3>1, EndsFacts DEF Idle
    <3>2. ASSUME NEW n, Reads(i, n)
          PROVE  /\ task'[i].pc \in {"idle", "read", "insert"}
                 /\ \A j \in Tasks : j # i => task'[j] = task[j]
      BY <3>2 DEF Reads
    <3> QED BY <1>0, <1>4, <3>1, <3>2, ReadLinesDoes DEF DropTask, Ends
  <2>3. \A u : SamePending(u)
    BY <2>1, <2>2, PendingNone DEF Pending
  <2>4. \A u \in DOMAIN objects : SameRows(u)
    BY <2>1 DEF SameRows
  <2>5. RaceInv'
    BY <2>1, <2>2 DEF RaceInv, CountInv
  <2> QED BY <2>1, <2>3, <2>4, <2>5, CountInvKept
<1>5. ASSUME NEW i \in Tasks,
             \/ GetNextFileNumber(i) \/ WriteRecordBatch(i) \/ PutFileKey(i)
             \/ IoError(i) /\ task[i].pc # "number"
      PROVE  CountInv'
  <2>1. /\ UNCHANGED <<objects, miscounted>>
        /\ task[i].pc \in {"number", "write", "put", "open"}
    BY <1>5 DEF GetNextFileNumber, WriteRecordBatch, PutFileKey, IoError
  <2>2. PICK p \in {"write", "put", "open", "count"}, n \in Nat : Moves(i, p, n, task[i].row_nums)
    BY <1>0, <1>5, DiskStepMoves
  <2>3. \A u : SamePending(u)
    BY <2>1, <2>2, PendingMoved DEF Pending
  <2>4. \A u \in DOMAIN objects : SameRows(u)
    BY <2>1 DEF SameRows
  <2>5. RaceInv'
    BY <2>1, <2>2 DEF RaceInv, CountInv, Moves
  <2> QED BY <2>1, <2>3, <2>4, <2>5, CountInvKept
<1>6. ASSUME NEW i \in Tasks, \/ InsertColumns(i) \/ OpenReader(i) \/ ReadRowNums(i)
                              \/ WriteRowNums(i) \/ (IoError(i) /\ task[i].pc = "number")
      PROVE  CountInv'
  BY <1>6, CountInserts, CountOpens, CountReads, CountWrites, CountFails
<1>7. CASE Crash
  <2>1. objects' = <<>> /\ task' = [i \in Tasks |-> Idle]
    BY <1>7 DEF Crash
  <2> QED BY <2>1 DEF CountInv, RaceInv, Idle
<1>8. CASE \/ \E t \in Tables, s \in Schemas, n \in 1 .. Partitions : RegisterTable(t, s, n)
           \/ \E t \in Tables : DeleteTable(t)
           \/ OpenDatabase \/ UNCHANGED vars
  BY <1>1, <1>8 DEF RegisterTable, DeleteTable, OpenDatabase, vars
<1> QED BY <1>2, <1>3, <1>4, <1>5, <1>6, <1>7, <1>8 DEF Next

LEMMA InitCountInv == Init => CountInv
BY DEF Init, CountInv, RaceInv, Idle

(* The row count of a table is never more than its partitions hold, and it *)
(* is what they hold between inserts, whatever file, key or reader failed, *)
(* unless two tasks of a load counted at once or one got no file number:   *)
(* for every number of tables, partitions, tasks and chunks, the tasks of  *)
(* a load having partitions of their own.                                  *)
THEOREM RowsAreCounted == Spec => []RowsCounted
<1>1. Init => BaseInv /\ CountInv
  BY InitBaseInv, InitCountInv
<1>2. BaseInv /\ CountInv /\ [Next]_vars => (BaseInv /\ CountInv)'
  BY StepBaseInv, StepCountInv
<1>3. BaseInv /\ CountInv => RowsCounted
  BY CountsRows
<1> QED BY <1>1, <1>2, <1>3, PTL DEF Spec

-----------------------------------------------------------------------------
(* A chunk on the disk was read by an earlier load, or by this one from    *)
(* lines before those its task holds or reads next: no two files have the  *)
(* same chunk.                                                             *)
Mark(w) == IF w.pc \in {"insert", "number", "write", "put"} THEN w.chunk[1][3] ELSE w.line + 1
OldRow(row) == /\ row[1] <= loads
               /\ row[1] = loads /\ Active(row[2]) => row[3] < Mark(task[row[2]])
HeldInv == \A i \in Tasks : Stored(i) =>
             /\ task[i].chunk[1][1] = loads /\ task[i].chunk[1][2] = i
             /\ task[i].chunk[1][3] <= task[i].line
KeyChunk(k) == files[k.name].chunk
ChunkInv ==
  /\ HeldInv
  /\ \A k \in file_keys : /\ KeyChunk(k) \in Chunks /\ KeyChunk(k) # <<>>
                          /\ OldRow(KeyChunk(k)[1])
  /\ \A j, k \in file_keys : KeyChunk(j) = KeyChunk(k) => j = k

LEMMA FirstRow ==
  ASSUME NEW c \in Chunks, c # <<>>
  PROVE  c[1] \in Nat \X Tasks \X Nat /\ c[1][1] \in Nat /\ c[1][2] \in Tasks /\ c[1][3] \in Nat
<1>1. c[1] \in Nat \X Tasks \X Nat
  BY DEF Chunks
<1> QED BY <1>1

LEMMA OldRowKept ==
  ASSUME NEW row \in Nat \X Tasks \X Nat, OldRow(row), loads \in Nat,
         \/ loads' = loads + 1
         \/ loads' = loads /\ (Active(row[2])' =>
              /\ Active(row[2]) /\ Mark(task[row[2]]) <= Mark(task[row[2]])'
              /\ Mark(task[row[2]]) \in Nat /\ Mark(task[row[2]])' \in Nat)
  PROVE  OldRow(row)'
<1>1. row[1] \in Nat /\ row[3] \in Nat
  OBVIOUS
<1>2. CASE loads' = loads + 1
  <2>1. row[1] <= loads' /\ row[1] # loads'
    BY <1>1, <1>2 DEF OldRow
  <2> QED BY <2>1 DEF OldRow
<1>3. CASE loads' = loads /\ ~Active(row[2])'
  BY <1>3 DEF OldRow
<1>4. CASE loads' = loads /\ Active(row[2])'
  <2>1. PICK m, n : m = Mark(task[row[2]]) /\ n = Mark(task[row[2]])'
    OBVIOUS
  <2>2. m \in Nat /\ n \in Nat /\ m <= n /\ (row[1] = loads => row[3] < m)
    BY <1>4, <2>1 DEF OldRow
  <2>3. row[1] = loads => row[3] < n
    BY <1>1, <2>2
  <2> QED BY <1>4, <2>1, <2>3 DEF OldRow
<1> QED BY <1>2, <1>3, <1>4

\* No task goes back to lines before those it holds.
MarksGrow ==
  \/ loads' = loads + 1
  \/ /\ loads' = loads
     /\ \A i \in Tasks : Active(i)' => /\ Active(i) /\ Mark(task[i]) <= Mark(task[i])'
                                       /\ Mark(task[i]) \in Nat /\ Mark(task[i])' \in Nat

LEMMA MarkType ==
  ASSUME BaseInv, HeldInv, NEW i \in Tasks
  PROVE  /\ task[i].line \in Nat /\ Mark(task[i]) \in Nat
         /\ Stored(i) => task[i].chunk[1][3] \in Nat /\ task[i].chunk[1][3] <= task[i].line
<1>1. task[i] \in TaskType
  BY DEF BaseInv, TypeInv
<1>2. task[i].line \in Nat
  BY <1>1 DEF TaskType
<1>3. Stored(i) => task[i].chunk[1][3] \in Nat
  BY StoredFacts, FirstRow DEF BaseInv
<1> QED BY <1>2, <1>3 DEF Mark, HeldInv, Stored

LEMMA MovesMark ==
  ASSUME BaseInv, HeldInv, NEW i \in Tasks, Stored(i), NEW p, NEW n, NEW r, Moves(i, p, n, r),
         loads' = loads,
         \/ p \in {"number", "write", "put"} /\ task[i].pc \in {"insert", "number", "write", "put"}
         \/ p \in {"open", "count", "add", "read"}
  PROVE  HeldInv' /\ MarksGrow
<1>1. /\ \A j \in Tasks : j # i => task'[j] = task[j]
      /\ task'[i].pc = p /\ task'[i].chunk = task[i].chunk /\ task'[i].line = task[i].line
  BY DEF Moves
<1>2. HeldInv'
  BY <1>1 DEF HeldInv, Stored
<1>3. /\ Mark(task[i])' \in Nat /\ Mark(task[i]) \in Nat /\ Mark(task[i]) <= Mark(task[i])'
      /\ Active(i)
  <2>1. PICK m, l : m = task[i].chunk[1][3] /\ l = task[i].line
    OBVIOUS
  <2>2. m \in Nat /\ l \in Nat /\ m <= l
    BY <2>1, MarkType
  <2>3. /\ Mark(task[i]) = IF task[i].pc \in {"insert", "number", "write", "put"} THEN m ELSE l + 1
        /\ Mark(task[i])' = IF p \in {"insert", "number", "write", "put"} THEN m ELSE l + 1
    BY <1>1, <2>1 DEF Mark
  <2>4. Active(i)
    BY DEF Active, Stored
  <2> QED BY <2>2, <2>3, <2>4
<1>4. ASSUME NEW j \in Tasks, j # i
      PROVE  Active(j)' => /\ Active(j) /\ Mark(task[j]) <= Mark(task[j])'
                           /\ Mark(task[j]) \in Nat /\ Mark(task[j])' \in Nat
  <2>1. Mark(task[j]) \in Nat
    BY MarkType
  <2>2. Mark(task[j])' = Mark(task[j]) /\ (Active(j)' => Active(j))
    BY <1>1, <1>4 DEF Mark, Active
  <2> QED BY <2>1, <2>2
<1> QED BY <1>2, <1>3, <1>4 DEF MarksGrow

LEMMA ReadsMark ==
  ASSUME BaseInv, HeldInv, NEW i \in Tasks, task[i].pc = "read", NEW n, Reads(i, n),
         loads' = loads
  PROVE  HeldInv' /\ MarksGrow
<1>1. PICK l : l = task[i].line
  OBVIOUS
<1>2. l \in Nat /\ n \in Nat \ {0}
  BY <1>1, MarkType DEF Reads
<1>3. /\ \A j \in Tasks : j # i => task'[j] = task[j]
      /\ task'[i].pc \in {"insert", "read"} /\ task'[i].line = l + n
      /\ task'[i].chunk[1] = <<loads, i, l + 1>>
  BY <1>1 DEF Reads
<1>4. /\ task'[i].chunk[1][1] = loads /\ task'[i].chunk[1][2] = i
      /\ task'[i].chunk[1][3] = l + 1 /\ l + 1 <= l + n
  BY <1>2, <1>3
<1>5. HeldInv'
  BY <1>3, <1>4 DEF HeldInv, Stored
<1>6. /\ Mark(task[i])' \in Nat /\ Mark(task[i]) \in Nat /\ Mark(task[i]) <= Mark(task[i])'
      /\ Active(i)
  <2>1. Mark(task[i]) = l + 1 /\ Active(i)
    BY <1>1 DEF Mark, Active
  <2>2. Mark(task[i])' = l + 1 \/ Mark(task[i])' = l + n + 1
    BY <1>3, <1>4 DEF Mark
  <2> QED BY <1>2, <2>1, <2>2
<1>7. ASSUME NEW j \in Tasks, j # i
      PROVE  Active(j)' => /\ Active(j) /\ Mark(task[j]) <= Mark(task[j])'
                           /\ Mark(task[j]) \in Nat /\ Mark(task[j])' \in Nat
  <2>1. Mark(task[j]) \in Nat
    BY MarkType
  <2>2. Mark(task[j])' = Mark(task[j]) /\ (Active(j)' => Active(j))
    BY <1>3, <1>7 DEF Mark, Active
  <2> QED BY <2>1, <2>2
<1> QED BY <1>5, <1>6, <1>7 DEF MarksGrow

LEMMA EndsMark ==
  ASSUME BaseInv, HeldInv, loads' = loads,
         \A i \in Tasks : task'[i] = task[i] \/ task'[i] = Idle
  PROVE  HeldInv' /\ MarksGrow
<1>1. \A i \in Tasks : Active(i)' => task'[i] = task[i]
  BY DEF Active, Idle
<1>2. HeldInv'
  BY <1>1 DEF HeldInv, Stored, Active
<1>3. ASSUME NEW i \in Tasks, Active(i)'
      PROVE  /\ Active(i) /\ Mark(task[i]) <= Mark(task[i])'
             /\ Mark(task[i]) \in Nat /\ Mark(task[i])' \in Nat
  <2>1. Mark(task[i]) \in Nat
    BY MarkType
  <2>2. Mark(task[i])' = Mark(task[i]) /\ Active(i)
    BY <1>1, <1>3 DEF Mark, Active
  <2> QED BY <2>1, <2>2
<1> QED BY <1>2, <1>3 DEF MarksGrow

LEMMA StepMarks ==
  ASSUME BaseInv, HeldInv, [Next]_vars
  PROVE  HeldInv' /\ MarksGrow
<1> USE DEF leveldb, bounds, history
<1>0. TypeInv /\ LoadInv
  BY DEF BaseInv
<1>1. CASE UNCHANGED <<task, loads>>
  BY <1>1, EndsMark
<1>2. ASSUME NEW o \in 1 .. Len(objects), NEW job \in Jobs, LoadFromFiles(o, job)
      PROVE  HeldInv' /\ MarksGrow
  <2>1. \A i \in Tasks : ~Stored(i)'
    BY <1>0, <1>2, LoadInvLoads
  <2>2. loads' = loads + 1
    BY <1>2 DEF LoadFromFiles
  <2> QED BY <2>1, <2>2 DEF HeldInv, MarksGrow
<1>3. ASSUME NEW i \in Tasks, Ends(i), loads' = loads PROVE HeldInv' /\ MarksGrow
  BY <1>0, <1>3, EndsFacts, EndsMark
<1>4. ASSUME NEW i \in Tasks, ReadLines(i) PROVE HeldInv' /\ MarksGrow
  <2>1. task[i].pc = "read" /\ (Ends(i) \/ \E n : Reads(i, n)) /\ loads' = loads
    BY <1>0, <1>4, ReadLinesDoes DEF ReadLines
  <2> QED BY <1>3, <2>1, ReadsMark
<1>5. ASSUME NEW i \in Tasks, DropTask(i) \/ (IoError(i) /\ task[i].pc = "number")
      PROVE  HeldInv' /\ MarksGrow
  BY <1>3, <1>5 DEF DropTask, IoError, Ends
<1>6. ASSUME NEW i \in Tasks, NEW p, NEW n, NEW r, Moves(i, p, n, r), loads' = loads,
             \/ p \in {"number", "write", "put"} /\ task[i].pc \in {"insert", "number", "write", "put"}
             \/ p \in {"open", "count", "add", "read"} /\ Stored(i)
      PROVE  HeldInv' /\ MarksGrow
  <2>1. Stored(i)
    BY <1>6 DEF Stored
  <2> QED BY <1>6, <2>1, MovesMark
<1>7. ASSUME NEW i \in Tasks, GetNextFileNumber(i) PROVE HeldInv' /\ MarksGrow
  <2>1. PICK n \in Nat : n = global_file_number + 1
    BY <1>0 DEF TypeInv
  <2>2. Moves(i, "write", n, task[i].row_nums) /\ loads' = loads /\ task[i].pc = "number"
    BY <1>0, <1>7, <2>1, MovesNumber DEF GetNextFileNumber
  <2> QED BY <1>6, <2>2
<1>8. ASSUME NEW i \in Tasks, WriteRecordBatch(i) PROVE HeldInv' /\ MarksGrow
  <2>1. /\ Moves(i, "put", task[i].number, task[i].row_nums)
        /\ loads' = loads /\ task[i].pc = "write"
    BY <1>0, <1>8, MovesPc DEF WriteRecordBatch, Pcs
  <2> QED BY <1>6, <2>1
<1>9. ASSUME NEW i \in Tasks, PutFileKey(i) PROVE HeldInv' /\ MarksGrow
  <2>1. /\ Moves(i, "open", task[i].number, task[i].row_nums)
        /\ loads' = loads /\ Stored(i)
    BY <1>0, <1>9, MovesPc DEF PutFileKey, Pcs, Stored
  <2> QED BY <1>6, <2>1
<1>10. ASSUME NEW i \in Tasks, IoError(i), task[i].pc # "number" PROVE HeldInv' /\ MarksGrow
  <2>1. /\ Moves(i, "count", task[i].number, task[i].row_nums)
        /\ loads' = loads /\ Stored(i)
    BY <1>0, <1>10, MovesPc DEF IoError, Pcs, Stored
  <2> QED BY <1>6, <2>1
<1>11. ASSUME NEW i \in Tasks, InsertColumns(i) PROVE HeldInv' /\ MarksGrow
  <2>1. /\ Moves(i, "number", task[i].number, task[i].row_nums)
        /\ loads' = loads /\ task[i].pc = "insert"
    BY <1>0, <1>11, InsertColumnsDoes DEF InsertColumns
  <2> QED BY <1>6, <2>1
<1>12. ASSUME NEW i \in Tasks, OpenReader(i) PROVE HeldInv' /\ MarksGrow
  <2>1. /\ Moves(i, "count", task[i].number, task[i].row_nums)
        /\ loads' = loads /\ Stored(i)
    BY <1>0, <1>12, OpenReaderDoes DEF OpenReader, Stored
  <2> QED BY <1>6, <2>1
<1>13. ASSUME NEW i \in Tasks, ReadRowNums(i) PROVE HeldInv' /\ MarksGrow
  <2>1. /\ Moves(i, "add", task[i].number, Table(i).row_nums)
        /\ loads' = loads /\ Stored(i)
    BY <1>0, <1>13, ReadRowNumsDoes DEF ReadRowNums, Stored
  <2> QED BY <1>6, <2>1
<1>14. ASSUME NEW i \in Tasks, WriteRowNums(i) PROVE HeldInv' /\ MarksGrow
  <2>1. /\ Moves(i, "read", task[i].number, task[i].row_nums)
        /\ loads' = loads /\ Stored(i)
    BY <1>0, <1>14, WriteRowNumsDoes DEF WriteRowNums, Stored
  <2> QED BY <1>6, <2>1
<1>15. CASE Crash
  BY <1>15, EndsMark DEF Crash
<1>16. CASE \/ \E t \in Tables, s \in Schemas, n \in 1 .. Partitions : RegisterTable(t, s, n)
            \/ \E t \in Tables : DeleteTable(t) \/ GetTable(t)
            \/ OpenDatabase \/ UNCHANGED vars
  BY <1>1, <1>16 DEF RegisterTable, DeleteTable, GetTable, OpenDatabase, vars
<1> QED BY <1>2, <1>4, <1>5, <1>7, <1>8, <1>9, <1>10, <1>11, <1>12, <1>13, <1>14, <1>15, <1>16
        DEF Next

\* What PutFileKey adds while the numbers fit.
NewKey(i) == [table |-> Table(i).name, part |-> task[i].part, name |-> task[i].number,
              row_count |-> Len(task[i].chunk)]
LEMMA PutAdds ==
  ASSUME DiskInv, NEW i \in Tasks, PutFileKey(i), global_file_number < FileNames
  PROVE  /\ file_keys' = file_keys \union {NewKey(i)} /\ files' = files
         /\ files[task[i].number].chunk = task[i].chunk /\ FileName(i) = task[i].number
         /\ \A k \in file_keys : k.name # task[i].number
<1>1. NumberInv /\ global_file_number \in Nat /\ task[i].pc = "put"
  BY DEF DiskInv, ShapeInv, PutFileKey
<1>2. /\ task[i].number \in 1 .. global_file_number /\ \A k \in file_keys : k.name # task[i].number
      /\ files[task[i].number].chunk = task[i].chunk
  BY <1>1 DEF NumberInv, HasNumber
<1>3. FileName(i) = task[i].number
  BY <1>1, <1>2, NameIsNumber DEF FileName
<1>4. file_keys' = file_keys \union {NewKey(i)} /\ files' = files
  BY <1>2, <1>3 DEF PutFileKey, NewKey
<1> QED BY <1>2, <1>3, <1>4

LEMMA KeysOnlyPut ==
  ASSUME [Next]_vars
  PROVE  file_keys' = file_keys \/ \E i \in Tasks : PutFileKey(i)
BY DEF Next, RegisterTable, DeleteTable, GetTable, LoadFromFiles, ReadLines, DropTask,
   InsertColumns, GetNextFileNumber, WriteRecordBatch, OpenReader, IoError,
   ReadRowNums, WriteRowNums, Crash, OpenDatabase, leveldb, vars

LEMMA StepChunkInv ==
  ASSUME BaseInv, DiskInv, ChunkInv, [Next]_vars, global_file_number < FileNames, KeysStay,
         global_file_number' < FileNames
  PROVE  ChunkInv'
<1>0. HeldInv' /\ MarksGrow /\ loads \in Nat
  BY StepMarks DEF ChunkInv, BaseInv, TypeInv
<1>1. ASSUME NEW k \in file_keys
      PROVE  /\ KeyChunk(k)' = KeyChunk(k) /\ KeyChunk(k) \in Chunks /\ KeyChunk(k) # <<>>
             /\ OldRow(KeyChunk(k)[1])'
  <2>1. KeyChunk(k)' = KeyChunk(k)
    BY DEF KeyChunk, KeysStay
  <2>2. PICK row : row = KeyChunk(k)[1]
    OBVIOUS
  <2>3. /\ KeyChunk(k) \in Chunks /\ KeyChunk(k) # <<>> /\ OldRow(row)
    BY <2>2 DEF ChunkInv
  <2>4. row \in Nat \X Tasks \X Nat /\ row[2] \in Tasks
    BY <2>2, <2>3, FirstRow
  <2>5. OldRow(row)'
    BY <1>0, <2>3, <2>4, OldRowKept DEF MarksGrow
  <2> QED BY <2>1, <2>2, <2>3, <2>5
<1>2. CASE file_keys' = file_keys
  BY <1>0, <1>1, <1>2 DEF ChunkInv
<1>3. ASSUME NEW i \in Tasks, PutFileKey(i) PROVE ChunkInv'
  <2>1. PICK new, c : new = NewKey(i) /\ c = task[i].chunk
    OBVIOUS
  <2>2. /\ file_keys' = file_keys \union {new} /\ files[new.name].chunk = c /\ files' = files
    BY <1>3, <2>1, PutAdds DEF NewKey
  <2>3. /\ Stored(i) /\ Active(i) /\ TypeInv /\ LoadInv /\ task[i].pc = "put"
        /\ Moves(i, "open", task[i].number, task[i].row_nums) /\ loads' = loads
    BY <1>3, MovesPc DEF Stored, Active, PutFileKey, BaseInv, bounds, Pcs
  <2>4. c \in Chunks /\ c # <<>>
    BY <2>1, <2>3, StoredFacts
  <2>5. /\ c[1][1] = loads /\ c[1][2] = i /\ c[1][3] <= task[i].line /\ c[1][3] \in Nat
        /\ task[i].line \in Nat
    BY <2>1, <2>3, MarkType DEF ChunkInv, HeldInv
  <2>6. KeyChunk(new)' = c /\ KeyChunk(new) = c
    BY <2>2 DEF KeyChunk
  <2>7. OldRow(c[1])'
    <3>1. Mark(task[i])' = task[i].line + 1
      BY <2>3 DEF Mark, Moves
    <3>2. c[1][3] < Mark(task[i])'
      BY <2>5, <3>1
    <3> QED BY <1>0, <2>3, <2>5, <3>2 DEF OldRow
  <2>8. \A k \in file_keys : KeyChunk(k) # c
    <3>1. Mark(task[i]) = c[1][3]
      BY <2>1, <2>3 DEF Mark
    <3>2. ~OldRow(c[1])
      BY <2>3, <2>5, <3>1 DEF OldRow
    <3> QED BY <3>2 DEF ChunkInv
  <2>9. \A j, k \in file_keys' : KeyChunk(j)' = KeyChunk(k)' => j = k
    BY <1>1, <2>2, <2>6, <2>8 DEF ChunkInv
  <2>10. \A k \in file_keys' : KeyChunk(k)' \in Chunks /\ KeyChunk(k)' # <<>>
                               /\ OldRow(KeyChunk(k)[1])'
    BY <1>1, <2>2, <2>4, <2>6, <2>7
  <2> QED BY <1>0, <2>9, <2>10 DEF ChunkInv
<1> QED BY <1>2, <1>3, KeysOnlyPut

-----------------------------------------------------------------------------
(* A partition in memory and its files: the readers are those of its keys, *)
(* the columns hold its last chunks, and the chunk the task w inserts is   *)
(* in the columns and not yet in the readers.                              *)
Inserting == {"number", "write", "put", "open"}
ChunkAt(part, disk, w, k) ==
  IF k \in DOMAIN part.readers THEN disk[part.readers[k]].chunk ELSE w.chunk
ColumnsOK(part, disk, w) ==
  /\ Len(part.columns) <= part.chunk_nums
  /\ \A k \in DOMAIN part.columns :
       part.columns[k] = ChunkAt(part, disk, w, part.chunk_nums - Len(part.columns) + k)
SliceOK(part, bit, names, disk, w) ==
  /\ ReadersDistinct(part)
  /\ names = ReaderSet(part) \union (IF w.pc = "open" THEN {w.number} ELSE {})
  /\ w.pc = "open" => w.number \notin ReaderSet(part) /\ disk[w.number].chunk = w.chunk
  /\ part.chunk_nums = Len(part.readers) + (IF w.pc \in Inserting THEN 1 ELSE 0)
  /\ ColumnsOK(part, disk, w)
  /\ bit = 0 /\ part.readers # <<>> => w.pc = "count"

\* The files of the partition's keys stay, and so does the slice.
LEMMA SliceDisk ==
  ASSUME NEW part, NEW bit, NEW names, NEW disk, NEW new, NEW w,
         SliceOK(part, bit, names, disk, w), \A n \in names : new[n] = disk[n]
  PROVE  SliceOK(part, bit, names, new, w)
<1>1. \A k \in DOMAIN part.readers : part.readers[k] \in names
  BY DEF SliceOK, ReaderSet
<1>2. \A k : ChunkAt(part, new, w, k) = ChunkAt(part, disk, w, k)
  BY <1>1 DEF ChunkAt
<1>3. ColumnsOK(part, new, w)
  BY <1>2 DEF SliceOK, ColumnsOK
<1>4. w.pc = "open" => new[w.number] = disk[w.number]
  BY DEF SliceOK
<1> QED BY <1>3, <1>4 DEF SliceOK

\* Between inserts every column is the chunk of a reader.
LEMMA ColumnIsRead ==
  ASSUME NEW part \in PartType, part.chunk_nums = Len(part.readers),
         Len(part.columns) <= part.chunk_nums, NEW k \in DOMAIN part.columns
  PROVE  part.chunk_nums - Len(part.columns) + k \in DOMAIN part.readers
<1>1. PICK c, r : c = part.columns /\ r = part.readers
  OBVIOUS
<1>2. c \in Seq(Chunks) /\ r \in Seq(Nat)
  BY <1>1 DEF PartType
<1>3. /\ Len(c) \in Nat /\ Len(r) \in Nat /\ k \in 1 .. Len(c) /\ DOMAIN r = 1 .. Len(r)
      /\ Len(c) <= Len(r)
  BY <1>1, <1>2
<1>4. Len(r) - Len(c) + k \in 1 .. Len(r)
  BY <1>3
<1> QED BY <1>1, <1>3, <1>4

\* A task that is not inserting leaves the slice, whatever else it does.
LEMMA SliceQuiet ==
  ASSUME NEW part \in PartType, NEW bit, NEW new, NEW names, NEW disk, NEW w, NEW v,
         SliceOK(part, bit, names, disk, w), w.pc \notin Inserting, v.pc \notin Inserting,
         w.pc = "count" => new = 1, new = bit \/ new = 1
  PROVE  SliceOK(part, new, names, disk, v)
<1>1. w.pc # "open" /\ v.pc # "open"
  BY DEF Inserting
<1>2. part.chunk_nums = Len(part.readers) /\ Len(part.columns) <= part.chunk_nums
  <2>1. Len(part.readers) \in Nat
    BY DEF PartType
  <2> QED BY <2>1 DEF SliceOK, ColumnsOK
<1>3. ASSUME NEW k \in DOMAIN part.columns
      PROVE  part.columns[k] = ChunkAt(part, disk, v, part.chunk_nums - Len(part.columns) + k)
  <2>1. PICK m : m = part.chunk_nums - Len(part.columns) + k
    OBVIOUS
  <2>2. m \in DOMAIN part.readers
    BY <1>2, <2>1, ColumnIsRead
  <2>3. part.columns[k] = ChunkAt(part, disk, w, m)
    BY <2>1 DEF SliceOK, ColumnsOK
  <2> QED BY <2>1, <2>2, <2>3 DEF ChunkAt
<1>4. ColumnsOK(part, disk, v)
  BY <1>2, <1>3 DEF ColumnsOK
<1> QED BY <1>1, <1>4 DEF SliceOK

\* The steps between the columns and the key.
LEMMA SliceGoesOn ==
  ASSUME NEW part, NEW bit, NEW names, NEW disk, NEW w, NEW v,
         SliceOK(part, bit, names, disk, w), w.pc \in {"number", "write"},
         v.pc \in {"write", "put"}, v.chunk = w.chunk
  PROVE  SliceOK(part, bit, names, disk, v)
<1>1. \A k : ChunkAt(part, disk, v, k) = ChunkAt(part, disk, w, k)
  BY DEF ChunkAt
<1>2. ColumnsOK(part, disk, v)
  BY <1>1 DEF SliceOK, ColumnsOK
<1> QED BY <1>2 DEF SliceOK, Inserting

LEMMA SliceInserts ==
  ASSUME NEW part \in PartType, NEW bit, NEW names, NEW disk, NEW w, NEW v,
         SliceOK(part, bit, names, disk, w), w.pc = "insert", w.chunk \in Chunks,
         v.pc = "number", v.chunk = w.chunk
  PROVE  SliceOK(AddChunk(part, w.chunk), bit, names, disk, v)
<1>1. PICK q, c, r, n : /\ q = AddChunk(part, w.chunk) /\ c = part.columns /\ r = part.readers
                        /\ n = part.chunk_nums
  OBVIOUS
<1>2. /\ c \in Seq(Chunks) /\ r \in Seq(Nat) /\ n \in Nat
      /\ q.readers = r /\ q.columns = Append(c, w.chunk) /\ q.chunk_nums = n + 1
  BY <1>1, AddChunkFacts DEF PartType
<1>3. n = Len(r) /\ Len(c) <= n /\ Len(r) \in Nat /\ Len(c) \in Nat
  <2>1. w.pc \notin Inserting
    BY DEF Inserting
  <2>2. n = Len(r) + 0 /\ Len(c) <= n
    BY <1>1, <2>1 DEF SliceOK, ColumnsOK
  <2>3. Len(r) \in Nat /\ Len(c) \in Nat
    BY <1>2
  <2> QED BY <2>2, <2>3
<1>4. /\ Len(q.columns) = Len(c) + 1 /\ DOMAIN q.columns = 1 .. Len(c) + 1
      /\ \A k \in 1 .. Len(c) : q.columns[k] = c[k]
      /\ q.columns[Len(c) + 1] = w.chunk
  BY <1>2
<1>5. q.chunk_nums - Len(q.columns) = n - Len(c)
  BY <1>2, <1>3, <1>4
<1>6. ASSUME NEW k \in DOMAIN q.columns
      PROVE  q.columns[k] = ChunkAt(q, disk, v, q.chunk_nums - Len(q.columns) + k)
  <2>1. PICK m : m = n - Len(c) + k
    OBVIOUS
  <2>2. CASE k \in 1 .. Len(c)
    <3>1. k \in DOMAIN part.columns
      BY <1>1, <1>2, <2>2
    <3>2. m \in DOMAIN part.readers
      BY <1>1, <1>3, <2>1, <3>1, ColumnIsRead
    <3>3. c[k] = ChunkAt(part, disk, w, m)
      BY <1>1, <2>1, <3>1 DEF SliceOK, ColumnsOK
    <3>4. ChunkAt(part, disk, w, m) = ChunkAt(q, disk, v, m)
      BY <1>1, <1>2, <3>2 DEF ChunkAt
    <3> QED BY <1>4, <1>5, <2>1, <2>2, <3>3, <3>4
  <2>3. CASE k = Len(c) + 1
    <3>1. m = Len(r) + 1
      BY <1>3, <2>1, <2>3
    <3>2. m \notin DOMAIN q.readers
      BY <1>2, <1>3, <3>1
    <3> QED BY <1>4, <1>5, <2>1, <2>3, <3>2 DEF ChunkAt
  <2>4. k \in 1 .. Len(c) \/ k = Len(c) + 1
    BY <1>3, <1>4, <1>6
  <2> QED BY <2>2, <2>3, <2>4
<1>7. ColumnsOK(q, disk, v)
  <2>1. Len(q.columns) <= q.chunk_nums
    BY <1>2, <1>3, <1>4
  <2> QED BY <1>6, <2>1 DEF ColumnsOK
<1>8. ReaderSet(q) = ReaderSet(part) /\ ReadersDistinct(q)
  BY <1>1, <1>2 DEF ReaderSet, ReadersDistinct, SliceOK
<1>9. q.chunk_nums = Len(q.readers) + 1
  BY <1>2, <1>3
<1> QED BY <1>1, <1>2, <1>7, <1>8, <1>9 DEF SliceOK, Inserting

LEMMA SlicePuts ==
  ASSUME NEW part, NEW bit, NEW names, NEW disk, NEW w, NEW v,
         SliceOK(part, bit, names, disk, w), w.pc = "put", v.pc = "open",
         v.chunk = w.chunk, v.number \notin names, disk[v.number].chunk = w.chunk
  PROVE  SliceOK(part, bit, names \union {v.number}, disk, v)
<1>1. \A k : ChunkAt(part, disk, v, k) = ChunkAt(part, disk, w, k)
  BY DEF ChunkAt
<1>2. ColumnsOK(part, disk, v)
  BY <1>1 DEF SliceOK, ColumnsOK
<1>3. names = ReaderSet(part)
  BY DEF SliceOK
<1> QED BY <1>2, <1>3 DEF SliceOK, Inserting

LEMMA SliceOpens ==
  ASSUME NEW part \in PartType, NEW bit, NEW names, NEW disk, NEW w, NEW v,
         SliceOK(part, bit, names, disk, w), w.pc = "open", w.number \in Nat, v.pc = "count"
  PROVE  SliceOK(AddOpened(part, w.number), bit, names, disk, v)
<1>1. PICK q, c, r, n, d : /\ q = AddOpened(part, w.number) /\ c = part.columns
                           /\ r = part.readers /\ n = part.chunk_nums /\ d = w.number
  OBVIOUS
<1>2. /\ c \in Seq(Chunks) /\ r \in Seq(Nat) /\ n \in Nat /\ d \in Nat
      /\ q.readers = Append(r, d) /\ q.columns = c /\ q.chunk_nums = n
  BY <1>1, AddOpenedFacts DEF PartType
<1>3. /\ n = Len(r) + 1 /\ Len(c) <= n /\ Len(r) \in Nat /\ Len(c) \in Nat
      /\ d \notin ReaderSet(part) /\ disk[d].chunk = w.chunk
      /\ names = ReaderSet(part) \union {d}
  <2>1. w.pc \in Inserting
    BY DEF Inserting
  <2>2. n = Len(r) + 1 /\ Len(c) <= n
    BY <1>1, <2>1 DEF SliceOK, ColumnsOK
  <2>3. Len(r) \in Nat /\ Len(c) \in Nat
    BY <1>2
  <2>4. /\ d \notin ReaderSet(part) /\ disk[d].chunk = w.chunk
        /\ names = ReaderSet(part) \union {d}
    BY <1>1 DEF SliceOK
  <2> QED BY <2>2, <2>3, <2>4
<1>4. /\ Len(q.readers) = Len(r) + 1 /\ DOMAIN q.readers = 1 .. Len(r) + 1
      /\ \A k \in 1 .. Len(r) : q.readers[k] = r[k]
      /\ q.readers[Len(r) + 1] = d /\ DOMAIN r = 1 .. Len(r)
  BY <1>2
<1>5. DOMAIN q.readers = DOMAIN r \union {Len(r) + 1} /\ Len(r) + 1 \notin DOMAIN r
  BY <1>3, <1>4
<1>6. ReaderSet(q) = ReaderSet(part) \union {d}
  BY <1>1, <1>4, <1>5 DEF ReaderSet
<1>7. ReadersDistinct(q)
  <2>1. ReadersDistinct(part)
    BY DEF SliceOK
  <2>2. \A k \in DOMAIN r : q.readers[k] = r[k] /\ r[k] # d
    BY <1>1, <1>3, <1>4 DEF ReaderSet
  <2> QED BY <1>1, <1>4, <1>5, <2>1, <2>2 DEF ReadersDistinct
<1>8. ASSUME NEW k \in DOMAIN q.columns
      PROVE  q.columns[k] = ChunkAt(q, disk, v, q.chunk_nums - Len(q.columns) + k)
  <2>1. PICK m : m = n - Len(c) + k
    OBVIOUS
  <2>2. k \in 1 .. Len(c) /\ m \in 1 .. Len(r) + 1
    <3>1. k \in 1 .. Len(c)
      BY <1>2, <1>8
    <3> QED BY <1>3, <2>1, <3>1
  <2>3. c[k] = ChunkAt(part, disk, w, m)
    BY <1>1, <1>2, <1>8, <2>1 DEF SliceOK, ColumnsOK
  <2>4. ChunkAt(q, disk, v, m) = ChunkAt(part, disk, w, m)
    <3>1. CASE m \in DOMAIN r
      BY <1>1, <1>4, <1>5, <3>1 DEF ChunkAt
    <3>2. CASE m = Len(r) + 1
      BY <1>1, <1>3, <1>4, <1>5, <3>2 DEF ChunkAt
    <3> QED BY <1>4, <1>5, <2>2, <3>1, <3>2
  <2> QED BY <1>2, <2>1, <2>3, <2>4
<1>9. ColumnsOK(q, disk, v)
  BY <1>2, <1>3, <1>8 DEF ColumnsOK
<1>10. q.chunk_nums = Len(q.readers) + 0
  BY <1>2, <1>3, <1>4
<1> QED BY <1>1, <1>3, <1>6, <1>7, <1>9, <1>10 DEF SliceOK, Inserting

LEMMA SliceFills ==
  ASSUME NEW x, NEW p, NEW keys, NEW n, NEW disk, x.partition_tables[p] \in PartType,
         FillPart(x, p, keys, n), Distinct(keys)
  PROVE  SliceOK(x.partition_tables[p], x.partition_bitmap[p], NamesUpTo(keys, n, p), disk, Idle)
<1>1. PICK part, bit : part = x.partition_tables[p] /\ bit = x.partition_bitmap[p]
  OBVIOUS
<1>2. /\ part.columns = <<>> /\ part.chunk_nums = Len(part.readers) /\ ReadersDistinct(part)
      /\ ReaderSet(part) = NamesUpTo(keys, n, p) /\ (bit = 0 => part.readers = <<>>)
  BY <1>1 DEF FillPart
<1>3. Len(part.readers) \in Nat
  BY <1>1 DEF PartType
<1>4. ColumnsOK(part, disk, Idle)
  BY <1>2, <1>3 DEF ColumnsOK
<1>5. Idle.pc = "idle" /\ Idle.pc \notin Inserting
  BY DEF Idle, Inserting
<1>6. part.chunk_nums = Len(part.readers) + 0
  BY <1>2, <1>3
<1> QED BY <1>1, <1>2, <1>4, <1>5, <1>6 DEF SliceOK

-----------------------------------------------------------------------------
(* The partitions a scan may find: of a table in the cache that was never  *)
(* deleted, without an I/O error, and whose keys were put through no other *)
(* object.  Each is in step with its files and with the task that loads    *)
(* it, if there is one.                                                    *)
Names(t, p) == {k.name : k \in {k \in file_keys : k.table = t /\ k.part = p}}
Loads(i, o, p) == Active(i) /\ task[i].obj = o /\ task[i].part = p
View(t, p) == /\ t \in Tables /\ t \notin dropped /\ tables[t] # 0
              /\ p \in DOMAIN objects[tables[t]].partition_tables
              /\ <<t, p>> \notin faulted /\ <<t, p>> \notin strayed
ScanOK(t, p) ==
  LET part == objects[tables[t]].partition_tables[p]
      bit == objects[tables[t]].partition_bitmap[p]
  IN /\ \A i \in Tasks : Loads(i, tables[t], p) =>
          SliceOK(part, bit, Names(t, p), files, task[i])
     /\ (\A i \in Tasks : ~Loads(i, tables[t], p)) =>
          SliceOK(part, bit, Names(t, p), files, Idle)
ScanInv == \A t \in Tables : tables[t] # 0 =>
             \A p \in DOMAIN objects[tables[t]].partition_tables : View(t, p) => ScanOK(t, p)

\* A view and its part.
LEMMA ViewFacts ==
  ASSUME BaseInv, NEW t, NEW p, View(t, p)
  PROVE  /\ t \in Tables /\ tables[t] \in DOMAIN objects /\ objects[tables[t]] \in TableObjects
         /\ objects[tables[t]].name = t
         /\ objects[tables[t]].partition_tables[p] \in PartType
<1>1. /\ t \in Tables /\ tables[t] \in DOMAIN objects /\ objects[tables[t]].name = t
      /\ p \in DOMAIN objects[tables[t]].partition_tables /\ objects \in Seq(TableObjects)
  BY DEF BaseInv, View, LoadInv, TypeInv
<1>2. objects[tables[t]] \in TableObjects
  BY <1>1
<1> QED BY <1>1, <1>2, TableFacts

\* Who loads a partition in view puts keys for it.
Mine(i, t, p) == t = Table(i).name /\ p = task[i].part
LEMMA MineLoads ==
  ASSUME BaseInv, NEW t, NEW p, View(t, p), NEW i \in Tasks, Loads(i, tables[t], p)
  PROVE  Mine(i, t, p)
BY ViewFacts DEF Mine, Loads, Table

\* What a step does not touch.
Untouched(t, p) ==
  /\ View(t, p) /\ tables'[t] = tables[t]
  /\ objects'[tables[t]].partition_tables[p] = objects[tables[t]].partition_tables[p]
  /\ objects'[tables[t]].partition_bitmap[p] = objects[tables[t]].partition_bitmap[p]
  /\ Names(t, p)' = Names(t, p)
  /\ \A n \in Names(t, p) : files'[n] = files[n]

LEMMA ScanKept ==
  ASSUME NEW t, NEW p, Untouched(t, p), ScanOK(t, p),
         \A i \in Tasks : /\ Loads(i, tables[t], p)' <=> Loads(i, tables[t], p)
                          /\ Loads(i, tables[t], p) => task'[i] = task[i]
  PROVE  ScanOK(t, p)'
<1>1. PICK o, names, disk, part, bit :
        /\ o = tables[t] /\ names = Names(t, p) /\ disk = files
        /\ part = objects[o].partition_tables[p] /\ bit = objects[o].partition_bitmap[p]
  OBVIOUS
<1>2. PICK new : new = files'
  OBVIOUS
<1>3. /\ tables'[t] = o /\ Names(t, p)' = names
      /\ objects'[o].partition_tables[p] = part /\ objects'[o].partition_bitmap[p] = bit
      /\ \A n \in names : new[n] = disk[n]
  BY <1>1, <1>2 DEF Untouched
<1>4. \A w : SliceOK(part, bit, names, disk, w) => SliceOK(part, bit, names, new, w)
  BY <1>3, SliceDisk
<1>5. ASSUME NEW i \in Tasks, Loads(i, o, p)' PROVE SliceOK(part, bit, names, new, task'[i])
  <2>1. Loads(i, tables[t], p)'
    BY <1>3, <1>5 DEF Loads
  <2>2. Loads(i, o, p) /\ task'[i] = task[i]
    BY <1>1, <2>1
  <2> QED BY <1>1, <1>4, <2>2 DEF ScanOK
<1>6. ASSUME \A i \in Tasks : ~Loads(i, o, p)' PROVE SliceOK(part, bit, names, new, Idle)
  <2>1. \A i \in Tasks : ~Loads(i, tables[t], p)'
    BY <1>3, <1>6 DEF Loads
  <2>2. \A i \in Tasks : ~Loads(i, tables[t], p)
    BY <2>1
  <2> QED BY <1>1, <1>4, <2>2 DEF ScanOK
<1>7. /\ \A i \in Tasks : Loads(i, tables[t], p)' => SliceOK(part, bit, names, new, task'[i])
      /\ (\A i \in Tasks : ~Loads(i, tables[t], p)') => SliceOK(part, bit, names, new, Idle)
  <2>1. \A i \in Tasks : Loads(i, tables[t], p)' <=> Loads(i, o, p)'
    BY <1>3 DEF Loads
  <2> QED BY <1>5, <1>6, <2>1
<1> QED BY <1>2, <1>3, <1>7 DEF ScanOK

LEMMA FilesKept ==
  ASSUME KeysStay, global_file_number' < FileNames, NEW t, NEW p
  PROVE  \A n \in Names(t, p) : files'[n] = files[n]
BY DEF KeysStay, Names

\* A step of task i that changes no more than the partition it loads.
MySlice(i) == SliceOK(Partition(i), Table(i).partition_bitmap[task[i].part],
                      Names(Table(i).name, task[i].part), files, task[i])
Elsewhere(o, p, i) == o # task[i].obj \/ p # task[i].part
OnlyPart(i) ==
  /\ SameObjects
  /\ \A o \in DOMAIN objects : \A p \in DOMAIN objects[o].partition_tables : Elsewhere(o, p, i) =>
       /\ objects'[o].partition_tables[p] = objects[o].partition_tables[p]
       /\ objects'[o].partition_bitmap[p] = objects[o].partition_bitmap[p]
LoadStep(i) ==
  /\ UNCHANGED <<tables, dropped>> /\ faulted \subseteq faulted' /\ strayed \subseteq strayed'
  /\ Active(i) /\ Active(i)' /\ task'[i].obj = task[i].obj /\ task'[i].part = task[i].part
  /\ \A j \in Tasks : j # i => task'[j] = task[j]
  /\ OnlyPart(i)
  /\ \A t, p : View(t, p)' /\ ~Loads(i, tables[t], p) => Names(t, p)' = Names(t, p)

LEMMA ScanMoves ==
  ASSUME BaseInv, ScanInv, KeysStay, global_file_number' < FileNames, NEW i \in Tasks,
         LoadStep(i), View(Table(i).name, task[i].part)' /\ MySlice(i) => MySlice(i)'
  PROVE  ScanInv'
<1> SUFFICES ASSUME NEW t \in Tables, NEW p, View(t, p)' PROVE ScanOK(t, p)'
  BY DEF ScanInv
<1>0. tables \in [Tables -> Nat] /\ tables' = tables
  BY DEF BaseInv, TypeInv, LoadStep
<1>1. tables[t] \in DOMAIN objects
  BY <1>0 DEF View, BaseInv, LoadInv
<1>2. View(t, p)
  BY <1>0, <1>1 DEF View, LoadStep, OnlyPart, SameObjects
<1>3. ScanOK(t, p)
  BY <1>2 DEF ScanInv, View
<1>4. objects[tables[t]].name = t
  BY <1>2, ViewFacts
<1>5. \A j \in Tasks : j # i => (Loads(j, tables[t], p)' <=> Loads(j, tables[t], p))
  BY <1>0 DEF LoadStep, Loads, Active
<1>6. CASE Loads(i, tables[t], p)
  <2>1. Mine(i, t, p)
    BY <1>2, <1>6, MineLoads
  <2>2. task[i].obj = tables[t] /\ task[i].part = p /\ Table(i).name = t
    BY <1>6, <2>1 DEF Loads, Mine
  <2>3. MySlice(i)
    BY <1>3, <1>6, <2>2 DEF ScanOK, MySlice, Partition, Table
  <2>4. task'[i].obj = tables'[t] /\ task'[i].part = p /\ Table(i)'.name = t
    <3>1. task'[i].obj = tables[t] /\ task'[i].part = p
      BY <2>2 DEF LoadStep
    <3>2. objects'[tables[t]].name = objects[tables[t]].name
      BY <1>1 DEF LoadStep, OnlyPart, SameObjects
    <3> QED BY <1>0, <1>4, <3>1, <3>2 DEF Table
  <2>5. MySlice(i)'
    BY <2>3, <2>4
  <2>6. SliceOK(objects[tables[t]].partition_tables[p], objects[tables[t]].partition_bitmap[p],
                Names(t, p), files, task[i])'
    BY <2>4, <2>5 DEF MySlice, Partition, Table
  <2>7. \A j \in Tasks : j # i => ~Loads(j, tables[t], p)
    BY <2>2 DEF Loads, BaseInv, LoadInv, LoadStep
  <2>8. Loads(i, tables[t], p)' /\ \A j \in Tasks : j # i => ~Loads(j, tables[t], p)'
    BY <1>5, <2>4, <2>7 DEF Loads, LoadStep
  <2> QED BY <2>6, <2>8 DEF ScanOK
<1>7. CASE ~Loads(i, tables[t], p)
  <2>1. ~Loads(i, tables[t], p)' /\ Elsewhere(tables[t], p, i)
    BY <1>0, <1>7 DEF Loads, LoadStep, Elsewhere
  <2>2. /\ objects'[tables[t]].partition_tables[p] = objects[tables[t]].partition_tables[p]
        /\ objects'[tables[t]].partition_bitmap[p] = objects[tables[t]].partition_bitmap[p]
    BY <1>1, <1>2, <2>1 DEF LoadStep, OnlyPart, View
  <2>3. Names(t, p)' = Names(t, p)
    BY <1>7 DEF LoadStep
  <2>4. Untouched(t, p)
    BY <1>0, <1>2, <2>2, <2>3, FilesKept DEF Untouched
  <2>5. \A j \in Tasks : /\ Loads(j, tables[t], p)' <=> Loads(j, tables[t], p)
                         /\ Loads(j, tables[t], p) => task'[j] = task[j]
    BY <1>5, <1>7, <2>1 DEF LoadStep
  <2> QED BY <1>3, <2>4, <2>5, ScanKept
<1> QED BY <1>6, <1>7

\* A step that touches no partition: tasks begin, read on, or end.
Calm(t, p) ==
  /\ \A i \in Tasks : Loads(i, tables[t], p) => task[i].pc = "read"
  /\ \A i \in Tasks : Loads(i, tables[t], p)' => task'[i].pc \in {"read", "insert"}
LoadSame(t, p) ==
  \A i \in Tasks : /\ Loads(i, tables[t], p)' <=> Loads(i, tables[t], p)
                   /\ Loads(i, tables[t], p) => task'[i] = task[i]

LEMMA ScanCalm ==
  ASSUME BaseInv, ScanInv, KeysStay, global_file_number' < FileNames,
         UNCHANGED <<objects, tables, dropped, file_keys>>, faulted \subseteq faulted',
         strayed \subseteq strayed',
         \A t, p : View(t, p)' => Calm(t, p) \/ LoadSame(t, p)
  PROVE  ScanInv'
<1> SUFFICES ASSUME NEW t \in Tables, NEW p, View(t, p)' PROVE ScanOK(t, p)'
  BY DEF ScanInv
<1>1. View(t, p)
  BY DEF View
<1>2. ScanOK(t, p)
  BY <1>1 DEF ScanInv, View
<1>3. Untouched(t, p)
  BY <1>1, FilesKept DEF Untouched, Names
<1>4. CASE LoadSame(t, p)
  BY <1>2, <1>3, <1>4, ScanKept DEF LoadSame
<1>5. CASE Calm(t, p)
  <2>1. PICK o, names, disk, part, bit :
          /\ o = tables[t] /\ names = Names(t, p) /\ disk = files
          /\ part = objects[o].partition_tables[p] /\ bit = objects[o].partition_bitmap[p]
    OBVIOUS
  <2>2. PICK new : new = files'
    OBVIOUS
  <2>3. part \in PartType
    BY <1>1, <2>1, ViewFacts
  <2>4. PICK w : w.pc \in {"idle", "read"} /\ SliceOK(part, bit, names, disk, w)
    <3>1. CASE \E i \in Tasks : Loads(i, tables[t], p)
      BY <1>2, <1>5, <2>1, <3>1 DEF ScanOK, Calm
    <3>2. CASE \A i \in Tasks : ~Loads(i, tables[t], p)
      <4>1. Idle.pc = "idle"
        BY DEF Idle
      <4> QED BY <1>2, <2>1, <3>2, <4>1 DEF ScanOK
    <3> QED BY <3>1, <3>2
  <2>5. ASSUME NEW v, v.pc \in {"idle", "read", "insert"} PROVE SliceOK(part, bit, names, new, v)
    <3>1. w.pc \notin Inserting /\ v.pc \notin Inserting /\ w.pc # "count"
      BY <2>4, <2>5 DEF Inserting
    <3>2. SliceOK(part, bit, names, disk, v)
      BY <2>3, <2>4, <3>1, SliceQuiet
    <3>3. \A n \in names : new[n] = disk[n]
      BY <2>1, <2>2, FilesKept
    <3> QED BY <3>2, <3>3, SliceDisk
  <2>6. Names(t, p)' = names
    BY <2>1 DEF Names
  <2>7. SliceOK(part, bit, names, new, Idle)
    BY <2>5 DEF Idle
  <2>8. \A i \in Tasks : Loads(i, tables[t], p)' => SliceOK(part, bit, names, new, task'[i])
    BY <1>5, <2>5 DEF Calm
  <2> QED BY <2>1, <2>2, <2>6, <2>7, <2>8 DEF ScanOK
<1> QED BY <1>4, <1>5

\* What the steps of a load change of the objects.
LEMMA OnlyPartChanges ==
  ASSUME NEW i \in Tasks, NEW y, Changes(task[i].obj, y),
         y.name = Table(i).name, y.rc = Table(i).rc,
         DOMAIN y.partition_tables = DOMAIN Table(i).partition_tables,
         \A p \in DOMAIN y.partition_tables : p # task[i].part =>
           /\ y.partition_tables[p] = Table(i).partition_tables[p]
           /\ y.partition_bitmap[p] = Table(i).partition_bitmap[p]
  PROVE  OnlyPart(i)
<1>1. SameObjects
  BY DEF SameObjects, Changes, Table
<1>2. ASSUME NEW o \in DOMAIN objects, NEW p \in DOMAIN objects[o].partition_tables,
             Elsewhere(o, p, i)
      PROVE  /\ objects'[o].partition_tables[p] = objects[o].partition_tables[p]
             /\ objects'[o].partition_bitmap[p] = objects[o].partition_bitmap[p]
  BY <1>2 DEF Elsewhere, Changes, Table
<1> QED BY <1>1, <1>2 DEF OnlyPart

\* The table of task i after a step, in terms of the one before.
NowHas(i, part, bit) ==
  /\ OnlyPart(i)
  /\ objects'[task[i].obj].name = Table(i).name
  /\ objects'[task[i].obj].partition_tables[task[i].part] = part
  /\ objects'[task[i].obj].partition_bitmap[task[i].part] = bit

LEMMA HasSame ==
  ASSUME NEW i \in Tasks, objects' = objects
  PROVE  NowHas(i, Partition(i), Table(i).partition_bitmap[task[i].part])
BY DEF NowHas, OnlyPart, SameObjects, Partition, Table

LEMMA HasPart ==
  ASSUME BaseInv, NEW i \in Tasks, Stored(i), NEW q, PartBecomes(i, q)
  PROVE  NowHas(i, q, Table(i).partition_bitmap[task[i].part])
<1>1. PICK x, o, p : x = Table(i) /\ o = task[i].obj /\ p = task[i].part
  OBVIOUS
<1>2. PICK y : /\ Changes(o, y) /\ y.name = x.name /\ y.rc = x.rc
               /\ y.partition_bitmap = x.partition_bitmap
               /\ y.partition_tables = [x.partition_tables EXCEPT ![p] = q]
  BY <1>1 DEF PartBecomes
<1>3. p \in DOMAIN x.partition_tables
  BY <1>1, StoredFacts DEF BaseInv
<1>4. /\ DOMAIN y.partition_tables = DOMAIN x.partition_tables
      /\ \A r \in DOMAIN y.partition_tables : r # p =>
           /\ y.partition_tables[r] = x.partition_tables[r]
           /\ y.partition_bitmap[r] = x.partition_bitmap[r]
      /\ y.partition_tables[p] = q
  BY <1>2, <1>3
<1>5. OnlyPart(i)
  BY <1>1, <1>2, <1>4, OnlyPartChanges
<1> QED BY <1>1, <1>2, <1>4, <1>5 DEF NowHas, Changes

\* A step of a load that leaves the keys, and the one slice it must keep.
KeepsSlice(i, part, bit) ==
  \A names :
    /\ <<Table(i).name, task[i].part>> \notin faulted'
    /\ SliceOK(Partition(i), Table(i).partition_bitmap[task[i].part], names, files, task[i])
    => SliceOK(part, bit, names, files, task'[i])
LEMMA ScanLoads ==
  ASSUME BaseInv, ScanInv, KeysStay, global_file_number' < FileNames, NEW i \in Tasks, Stored(i),
         UNCHANGED <<tables, dropped, file_keys, strayed>>, faulted \subseteq faulted',
         NEW pc, NEW n, NEW r, Moves(i, pc, n, r), pc # "idle",
         NEW part, NEW bit, NowHas(i, part, bit), KeepsSlice(i, part, bit)
  PROVE  ScanInv'
<1>1. /\ task'[i].obj = task[i].obj /\ task'[i].part = task[i].part /\ task'[i].pc = pc
      /\ \A j \in Tasks : j # i => task'[j] = task[j]
  BY DEF Moves
<1>2. Active(i) /\ Active(i)'
  BY <1>1 DEF Active, Stored
<1>3. \A t, p : Names(t, p)' = Names(t, p)
  BY DEF Names
<1>4. LoadStep(i)
  BY <1>1, <1>2, <1>3 DEF LoadStep, NowHas
<1>5. ASSUME View(Table(i).name, task[i].part)', MySlice(i) PROVE MySlice(i)'
  <2>1. PICK names : names = Names(Table(i).name, task[i].part)
    OBVIOUS
  <2>2. Table(i)'.name = Table(i).name
    BY <1>1 DEF Table, NowHas
  <2>3. <<Table(i).name, task[i].part>> \notin faulted'
    BY <1>1, <1>5, <2>2 DEF View
  <2>4. SliceOK(part, bit, names, files, task'[i])
    BY <1>5, <2>1, <2>3 DEF MySlice, KeepsSlice
  <2>5. \A m \in names : files'[m] = files[m]
    BY <2>1, FilesKept
  <2>6. SliceOK(part, bit, names, files', task'[i])
    <3>1. PICK disk, new, w : disk = files /\ new = files' /\ w = task'[i]
      OBVIOUS
    <3> QED BY <2>4, <2>5, <3>1, SliceDisk
  <2>7. Names(Table(i).name, task[i].part)' = names
    BY <1>1, <1>3, <2>1, <2>2
  <2>8. Partition(i)' = part /\ Table(i)'.partition_bitmap[task'[i].part] = bit
    BY <1>1 DEF Partition, Table, NowHas
  <2> QED BY <2>6, <2>7, <2>8 DEF MySlice
<1> QED BY <1>4, <1>5, ScanMoves

LEMMA ScanInserts ==
  ASSUME BaseInv, ScanInv, KeysStay, global_file_number' < FileNames, NEW i \in Tasks,
         InsertColumns(i)
  PROVE  ScanInv'
<1>1. TypeInv /\ LoadInv /\ Stored(i) /\ task[i].pc = "insert"
  BY DEF BaseInv, InsertColumns, Stored
<1>2. UNCHANGED <<tables, dropped, file_keys, faulted, strayed>>
  BY DEF InsertColumns, leveldb, history
<1>3. PICK part, bit, w, v : /\ part = Partition(i) /\ w = task[i] /\ v = task'[i]
                             /\ bit = Table(i).partition_bitmap[task[i].part]
  OBVIOUS
<1>4. part \in PartType /\ w.chunk \in Chunks
  BY <1>1, <1>3, StoredFacts
<1>5. Moves(i, "number", w.number, w.row_nums) /\ PartBecomes(i, AddChunk(part, w.chunk))
  BY <1>1, <1>3, InsertColumnsDoes
<1>6. NowHas(i, AddChunk(part, w.chunk), bit)
  <2>1. PICK q : q = AddChunk(part, w.chunk)
    OBVIOUS
  <2> QED BY <1>1, <1>3, <1>5, <2>1, HasPart
<1>7. v.pc = "number" /\ v.chunk = w.chunk
  BY <1>3, <1>5 DEF Moves
<1>8. PICK disk, q : disk = files /\ q = AddChunk(part, w.chunk)
  OBVIOUS
<1>9. \A names : SliceOK(part, bit, names, disk, w) => SliceOK(q, bit, names, disk, v)
  BY <1>1, <1>3, <1>4, <1>7, <1>8, SliceInserts
<1>10. KeepsSlice(i, q, bit)
  BY <1>3, <1>8, <1>9 DEF KeepsSlice
<1> QED BY <1>1, <1>2, <1>5, <1>6, <1>8, <1>10, ScanLoads

LEMMA ScanNumbers ==
  ASSUME BaseInv, ScanInv, KeysStay, global_file_number' < FileNames, NEW i \in Tasks,
         GetNextFileNumber(i) \/ WriteRecordBatch(i)
  PROVE  ScanInv'
<1>1. TypeInv /\ Stored(i) /\ task[i].pc \in {"number", "write"}
  BY DEF BaseInv, GetNextFileNumber, WriteRecordBatch, Stored
<1>2. UNCHANGED <<tables, dropped, file_keys, faulted, strayed, objects>>
  BY DEF GetNextFileNumber, WriteRecordBatch, leveldb, history
<1>3. PICK part, bit, w, v : /\ part = Partition(i) /\ w = task[i] /\ v = task'[i]
                             /\ bit = Table(i).partition_bitmap[task[i].part]
  OBVIOUS
<1>4. PICK pc \in {"write", "put"} : \E n, r : Moves(i, pc, n, r)
  <2>1. CASE GetNextFileNumber(i)
    <3>1. PICK n \in Nat : n = global_file_number + 1
      BY <1>1 DEF TypeInv
    <3> QED BY <1>1, <2>1, <3>1, MovesNumber DEF GetNextFileNumber
  <2>2. CASE WriteRecordBatch(i)
    BY <1>1, <2>2, MovesPc DEF WriteRecordBatch, Pcs
  <2> QED BY <2>1, <2>2
<1>11. PICK n, r : Moves(i, pc, n, r)
  BY <1>4
<1>5. v.pc \in {"write", "put"} /\ v.chunk = w.chunk
  BY <1>3, <1>4, <1>11 DEF Moves
<1>6. NowHas(i, part, bit)
  BY <1>2, <1>3, HasSame
<1>7. PICK disk : disk = files
  OBVIOUS
<1>8. \A names : SliceOK(part, bit, names, disk, w) => SliceOK(part, bit, names, disk, v)
  BY <1>1, <1>3, <1>5, SliceGoesOn
<1>9. pc # "idle"
  BY <1>4
<1>10. KeepsSlice(i, part, bit)
  BY <1>3, <1>7, <1>8 DEF KeepsSlice
<1> QED BY <1>1, <1>2, <1>4, <1>6, <1>9, <1>10, <1>11, ScanLoads

LEMMA ScanOpens ==
  ASSUME BaseInv, DiskInv, ScanInv, KeysStay, global_file_number' < FileNames,
         global_file_number < FileNames, NEW i \in Tasks, OpenReader(i)
  PROVE  ScanInv'
<1>1. TypeInv /\ LoadInv /\ Stored(i) /\ task[i].pc = "open"
  BY DEF BaseInv, OpenReader, Stored
<1>2. UNCHANGED <<tables, dropped, file_keys, faulted, strayed>>
  BY DEF OpenReader, leveldb, history
<1>3. PICK part, bit, w, v : /\ part = Partition(i) /\ w = task[i] /\ v = task'[i]
                             /\ bit = Table(i).partition_bitmap[task[i].part]
  OBVIOUS
<1>4. part \in PartType /\ w.number \in Nat
  BY <1>1, <1>3, StoredFacts DEF TaskType
<1>5. FileName(i) = w.number
  <2>1. NumberInv /\ global_file_number \in Nat
    BY DEF DiskInv, ShapeInv
  <2>2. task[i].number \in 1 .. global_file_number
    BY <1>1, <2>1 DEF NumberInv, HasNumber
  <2> QED BY <1>3, <2>1, <2>2, NameIsNumber DEF FileName
<1>6. PICK disk, q : disk = files /\ q = AddOpened(part, w.number)
  OBVIOUS
<1>7. Moves(i, "count", w.number, w.row_nums) /\ PartBecomes(i, q)
  BY <1>1, <1>3, <1>5, <1>6, OpenReaderDoes
<1>8. NowHas(i, q, bit)
  BY <1>1, <1>3, <1>7, HasPart
<1>9. v.pc = "count"
  BY <1>3, <1>7 DEF Moves
<1>10. \A names : SliceOK(part, bit, names, disk, w) => SliceOK(q, bit, names, disk, v)
  BY <1>1, <1>3, <1>4, <1>6, <1>9, SliceOpens
<1>11. KeepsSlice(i, q, bit)
  BY <1>3, <1>6, <1>10 DEF KeepsSlice
<1> QED BY <1>1, <1>2, <1>7, <1>8, <1>11, ScanLoads

LEMMA ScanCounts ==
  ASSUME BaseInv, ScanInv, KeysStay, global_file_number' < FileNames, NEW i \in Tasks,
         ReadRowNums(i)
  PROVE  ScanInv'
<1>1. TypeInv /\ LoadInv /\ Stored(i) /\ task[i].pc = "count"
  BY DEF BaseInv, ReadRowNums, Stored
<1>2. UNCHANGED <<tables, dropped, file_keys, faulted, strayed>>
  BY DEF ReadRowNums, leveldb
<1>3. PICK part, bit, w, v : /\ part = Partition(i) /\ w = task[i] /\ v = task'[i]
                             /\ bit = Table(i).partition_bitmap[task[i].part]
  OBVIOUS
<1>4. part \in PartType
  BY <1>1, <1>3, StoredFacts
<1>5. PICK n, r : Moves(i, "add", n, r)
  BY <1>1, ReadRowNumsDoes
<1>6. NowHas(i, part, 1)
  <2>1. PICK x, o, p : x = Table(i) /\ o = task[i].obj /\ p = task[i].part
    OBVIOUS
  <2>2. PICK y : /\ Changes(o, y) /\ y.name = x.name /\ y.rc = x.rc
                 /\ y.partition_tables = x.partition_tables
                 /\ y.partition_bitmap = [x.partition_bitmap EXCEPT ![p] = 1]
    BY <1>1, <2>1, ReadRowNumsDoes
  <2>3. p \in DOMAIN x.partition_tables /\ DOMAIN x.partition_bitmap = DOMAIN x.partition_tables
    BY <1>1, <2>1, StoredFacts, TableFacts
  <2>4. /\ y.partition_bitmap[p] = 1
        /\ \A q \in DOMAIN y.partition_tables : q # p =>
             y.partition_bitmap[q] = x.partition_bitmap[q]
    BY <2>2, <2>3
  <2>5. OnlyPart(i)
    <3>1. /\ DOMAIN y.partition_tables = DOMAIN x.partition_tables
          /\ \A q \in DOMAIN y.partition_tables : q # p =>
               /\ y.partition_tables[q] = x.partition_tables[q]
               /\ y.partition_bitmap[q] = x.partition_bitmap[q]
      BY <2>2, <2>4
    <3>2. Changes(task[i].obj, y) /\ y.name = Table(i).name /\ y.rc = Table(i).rc
      BY <2>1, <2>2
    <3> QED BY <2>1, <3>1, <3>2, OnlyPartChanges
  <2> QED BY <1>3, <2>1, <2>2, <2>4, <2>5 DEF NowHas, Changes, Partition, Table
<1>7. v.pc \notin Inserting /\ w.pc \notin Inserting
  BY <1>1, <1>3, <1>5 DEF Moves, Inserting
<1>8. PICK disk, one : disk = files /\ one = 1
  OBVIOUS
<1>9. \A names : SliceOK(part, bit, names, disk, w) => SliceOK(part, one, names, disk, v)
  BY <1>4, <1>7, <1>8, SliceQuiet
<1>10. KeepsSlice(i, part, one) /\ NowHas(i, part, one)
  BY <1>3, <1>6, <1>8, <1>9 DEF KeepsSlice
<1> QED BY <1>1, <1>2, <1>5, <1>10, ScanLoads

LEMMA ScanAdds ==
  ASSUME BaseInv, ScanInv, KeysStay, global_file_number' < FileNames, NEW i \in Tasks,
         WriteRowNums(i)
  PROVE  ScanInv'
<1>1. TypeInv /\ LoadInv /\ Stored(i) /\ task[i].pc = "add"
  BY DEF BaseInv, WriteRowNums, Stored
<1>2. UNCHANGED <<tables, dropped, file_keys, faulted, strayed>>
  BY DEF WriteRowNums, leveldb, history
<1>3. PICK part, bit, w, v : /\ part = Partition(i) /\ w = task[i] /\ v = task'[i]
                             /\ bit = Table(i).partition_bitmap[task[i].part]
  OBVIOUS
<1>4. part \in PartType
  BY <1>1, <1>3, StoredFacts
<1>5. PICK n, r : Moves(i, "read", n, r)
  BY <1>1, WriteRowNumsDoes
<1>6. NowHas(i, part, bit)
  <2>1. PICK x, o : x = Table(i) /\ o = task[i].obj
    OBVIOUS
  <2>2. PICK y : /\ Changes(o, y) /\ y.name = x.name /\ y.rc = x.rc
                 /\ y.partition_tables = x.partition_tables
                 /\ y.partition_bitmap = x.partition_bitmap
    BY <1>1, <2>1, WriteRowNumsDoes
  <2>3. OnlyPart(i)
    BY <2>1, <2>2, OnlyPartChanges
  <2> QED BY <1>3, <2>1, <2>2, <2>3 DEF NowHas, Changes, Partition, Table
<1>7. v.pc \notin Inserting /\ w.pc \notin Inserting /\ w.pc # "count"
  BY <1>1, <1>3, <1>5 DEF Moves, Inserting
<1>8. PICK disk : disk = files
  OBVIOUS
<1>9. \A names : SliceOK(part, bit, names, disk, w) => SliceOK(part, bit, names, disk, v)
  BY <1>4, <1>7, SliceQuiet
<1>10. KeepsSlice(i, part, bit)
  BY <1>3, <1>8, <1>9 DEF KeepsSlice
<1> QED BY <1>1, <1>2, <1>5, <1>6, <1>10, ScanLoads

LEMMA ScanFails ==
  ASSUME BaseInv, ScanInv, KeysStay, global_file_number' < FileNames, NEW i \in Tasks,
         IoError(i), task[i].pc # "number"
  PROVE  ScanInv'
<1>1. TypeInv /\ Stored(i)
  BY DEF BaseInv, IoError, Stored
<1>2. /\ UNCHANGED <<tables, dropped, file_keys, strayed, objects>> /\ faulted \subseteq faulted'
      /\ <<Table(i).name, task[i].part>> \in faulted'
  BY DEF IoError, leveldb
<1>3. PICK part, bit : /\ part = Partition(i)
                       /\ bit = Table(i).partition_bitmap[task[i].part]
  OBVIOUS
<1>4. PICK n, r : Moves(i, "count", n, r)
  BY <1>1, MovesPc DEF IoError, Pcs
<1>5. NowHas(i, part, bit)
  BY <1>2, <1>3, HasSame
<1>6. KeepsSlice(i, part, bit)
  BY <1>2 DEF KeepsSlice
<1> QED BY <1>1, <1>2, <1>4, <1>5, <1>6, ScanLoads

LEMMA ScanPuts ==
  ASSUME BaseInv, DiskInv, ScanInv, KeysStay, global_file_number' < FileNames,
         global_file_number < FileNames, NEW i \in Tasks, PutFileKey(i)
  PROVE  ScanInv'
<1>1. TypeInv /\ LoadInv /\ Stored(i) /\ task[i].pc = "put"
  BY DEF BaseInv, PutFileKey, Stored
<1>2. /\ UNCHANGED <<tables, dropped, faulted, objects, files>>
      /\ strayed' = IF tables[Table(i).name] \in {0, task[i].obj} THEN strayed
                    ELSE strayed \union {<<Table(i).name, task[i].part>>}
  BY DEF PutFileKey
<1>3. Moves(i, "open", task[i].number, task[i].row_nums)
  BY <1>1, MovesPc DEF PutFileKey, Pcs
<1>4. /\ task'[i].obj = task[i].obj /\ task'[i].part = task[i].part /\ task'[i].pc = "open"
      /\ task'[i].number = task[i].number /\ task'[i].chunk = task[i].chunk
      /\ \A j \in Tasks : j # i => task'[j] = task[j]
  BY <1>3 DEF Moves
<1>5. Active(i) /\ Active(i)'
  BY <1>1, <1>4 DEF Active, Stored
<1>6. PICK key : key = NewKey(i)
  OBVIOUS
<1>7. /\ file_keys' = file_keys \union {key} /\ files[task[i].number].chunk = task[i].chunk
      /\ \A k \in file_keys : k.name # task[i].number
      /\ key.table = Table(i).name /\ key.part = task[i].part /\ key.name = task[i].number
  BY <1>6, PutAdds DEF NewKey
<1>8. \A t, p : Names(t, p)' = Names(t, p) \union
                  (IF key.table = t /\ key.part = p THEN {key.name} ELSE {})
  BY <1>7 DEF Names
<1>9. LoadStep(i)
  <2>1. ASSUME NEW t, NEW p, View(t, p)', ~Loads(i, tables[t], p)
        PROVE  Names(t, p)' = Names(t, p)
    <3>1. CASE Mine(i, t, p)
      <4>1. tables[t] \notin {0, task[i].obj}
        BY <1>2, <1>5, <2>1, <3>1 DEF View, Loads, Mine
      <4>2. <<t, p>> \in strayed'
        BY <1>2, <3>1, <4>1 DEF Mine
      <4> QED BY <2>1, <4>2 DEF View
    <3>2. CASE ~Mine(i, t, p)
      BY <1>7, <1>8, <3>2 DEF Mine
    <3> QED BY <3>1, <3>2
  <2>2. OnlyPart(i)
    BY <1>2, HasSame DEF NowHas
  <2> QED BY <1>2, <1>4, <1>5, <2>1, <2>2 DEF LoadStep
<1>10. ASSUME MySlice(i) PROVE MySlice(i)'
  <2>1. PICK t, p, part, bit, names, disk, w, v :
          /\ t = Table(i).name /\ p = task[i].part /\ part = Partition(i)
          /\ bit = Table(i).partition_bitmap[p] /\ names = Names(t, p) /\ disk = files
          /\ w = task[i] /\ v = task'[i]
    OBVIOUS
  <2>2. SliceOK(part, bit, names, disk, w)
    BY <1>10, <2>1 DEF MySlice
  <2>3. v.number \notin names
    BY <1>4, <1>7, <2>1 DEF Names
  <2>4. SliceOK(part, bit, names \union {v.number}, disk, v)
    BY <1>1, <1>4, <1>7, <2>1, <2>2, <2>3, SlicePuts
  <2>5. Table(i)' = Table(i) /\ Partition(i)' = part
    BY <1>2, <1>4, <2>1 DEF Table, Partition
  <2>6. Names(t, p)' = names \union {v.number}
    BY <1>4, <1>7, <1>8, <2>1
  <2>7. Names(Table(i).name, task[i].part)' = names \union {v.number}
    BY <1>4, <2>1, <2>5, <2>6
  <2> QED BY <1>2, <1>4, <2>1, <2>4, <2>5, <2>7 DEF MySlice
<1> QED BY <1>9, <1>10, ScanMoves

LEMMA ScanReads ==
  ASSUME BaseInv, ScanInv, KeysStay, global_file_number' < FileNames, NEW i \in Tasks,
         UNCHANGED <<objects, tables, dropped, file_keys>>, faulted \subseteq faulted',
         strayed \subseteq strayed',
         task[i].pc = "read" \/ (Active(i) /\ <<Table(i).name, task[i].part>> \in faulted'),
         \A j \in Tasks : j # i => task'[j] = task[j],
         \/ ~Active(i)'
         \/ /\ task[i].pc = "read" /\ task'[i].pc \in {"read", "insert"}
            /\ task'[i].obj = task[i].obj /\ task'[i].part = task[i].part
  PROVE  ScanInv'
<1> SUFFICES ASSUME NEW t, NEW p, View(t, p)' PROVE Calm(t, p) \/ LoadSame(t, p)
  BY ScanCalm
<1>0. View(t, p) /\ Active(i)
  BY DEF View, Active
<1>1. \A j \in Tasks : j # i => (Loads(j, tables[t], p)' <=> Loads(j, tables[t], p))
  BY DEF Loads, Active
<1>2. CASE Loads(i, tables[t], p)
  <2>1. \A j \in Tasks : j # i => ~Loads(j, tables[t], p)
    BY <1>2 DEF Loads, BaseInv, LoadInv
  <2>2. task[i].pc = "read"
    <3>1. Mine(i, t, p)
      BY <1>0, <1>2, MineLoads
    <3> QED BY <3>1 DEF Mine, View
  <2>3. Loads(i, tables[t], p)' => task'[i].pc \in {"read", "insert"}
    BY DEF Loads
  <2> QED BY <1>1, <2>1, <2>2, <2>3 DEF Calm
<1>3. CASE ~Loads(i, tables[t], p)
  <2>1. ~Loads(i, tables[t], p)'
    BY <1>0, <1>3 DEF Loads
  <2> QED BY <1>1, <1>3, <2>1 DEF LoadSame
<1> QED BY <1>2, <1>3

LEMMA ScanGets ==
  ASSUME BaseInv, DiskInv, ScanInv, KeysStay, global_file_number' < FileNames,
         global_file_number < FileNames, NEW t \in Tables, GetTable(t)
  PROVE  ScanInv'
<1>0. TypeInv /\ LoadInv /\ UNCHANGED <<file_keys, files, task, dropped, faulted, strayed>> /\ tables[t] = 0
  BY DEF BaseInv, GetTable, history, leveldb
<1>1. PICK keys, n, x, y : Gets(t, keys, n, x, y)
  BY <1>0, GetTableGets
<1>2. PICK new : new = Len(objects) + 1
  OBVIOUS
<1>3. /\ objects \in Seq(TableObjects) /\ y \in TableObjects /\ objects' = Append(objects, y)
      /\ tables \in [Tables -> Nat]
      /\ tables' = IF n = Len(keys) THEN [tables EXCEPT ![t] = new] ELSE tables
  BY <1>0, <1>1, <1>2 DEF Gets, TypeInv
<1>4. /\ new \notin DOMAIN objects /\ new \in Nat \ {0} /\ objects'[new] = y
      /\ \A o \in DOMAIN objects : objects'[o] = objects[o]
  BY <1>2, <1>3
<1> SUFFICES ASSUME NEW u \in Tables, NEW p, View(u, p)' PROVE ScanOK(u, p)'
  BY DEF ScanInv
<1>5. \A v, q : Names(v, q)' = Names(v, q)
  BY <1>0 DEF Names
<1>6. \A o, q : \A i \in Tasks : Loads(i, o, q)' <=> Loads(i, o, q)
  BY <1>0 DEF Loads, Active
<1>7. CASE tables'[u] = tables[u]
  <2>1. tables[u] \in DOMAIN objects
    BY <1>0, <1>7 DEF View, LoadInv
  <2>2. View(u, p) /\ objects'[tables[u]] = objects[tables[u]]
    BY <1>0, <1>4, <1>7, <2>1 DEF View
  <2>3. ScanOK(u, p)
    BY <2>2 DEF ScanInv, View
  <2>4. Untouched(u, p)
    BY <1>0, <1>5, <1>7, <2>2 DEF Untouched
  <2>5. \A i \in Tasks : /\ Loads(i, tables[u], p)' <=> Loads(i, tables[u], p)
                         /\ Loads(i, tables[u], p) => task'[i] = task[i]
    BY <1>0, <1>7 DEF Loads, Active
  <2> QED BY <2>3, <2>4, <2>5, ScanKept
<1>8. CASE tables'[u] # tables[u]
  <2>1. u = t /\ n = Len(keys) /\ tables'[t] = new
    BY <1>3, <1>8
  <2>2. \A i \in Tasks : ~Loads(i, tables[u], p)'
    <3>1. \A i \in Tasks : Active(i) => task[i].obj # new
      BY <1>0, <1>4 DEF LoadInv
    <3> QED BY <1>0, <2>1, <3>1 DEF Loads, Active
  <2>3. /\ y.partition_tables = x.partition_tables /\ y.partition_bitmap = x.partition_bitmap
        /\ keys \in FileKeysOf(t) /\ FillOK(x, t, keys, n)
    BY <1>1 DEF Gets
  <2>4. p \in DOMAIN x.partition_tables
    BY <1>4, <2>1, <2>3 DEF View
  <2>5. FillPart(x, p, keys, n) /\ x.partition_tables[p] \in PartType
    BY <2>3, <2>4, TableFacts DEF FillOK
  <2>6. /\ keys \in Seq(KeyType) /\ Distinct(keys)
        /\ \A k : k \in {keys[m] : m \in DOMAIN keys} <=> k \in file_keys /\ k.table = t
    BY <1>0, <2>3, KeysOfTable DEF DiskInv, ChunksDurable
  <2>7. NamesUpTo(keys, n, p) = Names(t, p)
    <3>1. DOMAIN keys = 1 .. n
      BY <2>1, <2>6
    <3>2. \A k \in file_keys : k.table = t => \E m \in 1 .. n : keys[m] = k
      BY <2>6, <3>1
    <3>3. \A m \in 1 .. n : keys[m] \in file_keys /\ keys[m].table = t
      BY <2>6, <3>1
    <3>4. NamesUpTo(keys, n, p) \subseteq Names(t, p)
      BY <3>3 DEF NamesUpTo, Names
    <3>5. Names(t, p) \subseteq NamesUpTo(keys, n, p)
      BY <3>2 DEF NamesUpTo, Names
    <3> QED BY <3>4, <3>5
  <2>8. PICK disk : disk = files
    OBVIOUS
  <2>9. SliceOK(x.partition_tables[p], x.partition_bitmap[p], NamesUpTo(keys, n, p), disk, Idle)
    BY <2>5, <2>6, SliceFills
  <2>10. SliceOK(objects[tables[u]].partition_tables[p], objects[tables[u]].partition_bitmap[p],
                 Names(u, p), files, Idle)'
    BY <1>0, <1>4, <1>5, <2>1, <2>3, <2>7, <2>8, <2>9
  <2> QED BY <2>2, <2>10 DEF ScanOK
<1> QED BY <1>7, <1>8

LEMMA ScanDrops ==
  ASSUME BaseInv, ScanInv, KeysStay, global_file_number' < FileNames, NEW t \in Tables,
         DeleteTable(t)
  PROVE  ScanInv'
<1>1. /\ UNCHANGED <<file_keys, objects, task, faulted, strayed>> /\ tables' = [tables EXCEPT ![t] = 0]
      /\ dropped' = dropped \union {t} /\ tables \in [Tables -> Nat]
  BY DEF DeleteTable, BaseInv, TypeInv
<1> SUFFICES ASSUME NEW u \in Tables, NEW p, View(u, p)' PROVE ScanOK(u, p)'
  BY DEF ScanInv
<1>2. tables'[u] = tables[u]
  BY <1>1 DEF View
<1>3. View(u, p)
  BY <1>1, <1>2 DEF View
<1>4. ScanOK(u, p)
  BY <1>3 DEF ScanInv, View
<1>5. Untouched(u, p)
  BY <1>1, <1>2, <1>3, FilesKept DEF Untouched, Names
<1>6. \A i \in Tasks : /\ Loads(i, tables[u], p)' <=> Loads(i, tables[u], p)
                       /\ Loads(i, tables[u], p) => task'[i] = task[i]
  BY <1>1, <1>2 DEF Loads, Active
<1> QED BY <1>4, <1>5, <1>6, ScanKept

LEMMA StepScanInv ==
  ASSUME BaseInv, DiskInv, ScanInv, [Next]_vars, KeysStay, global_file_number' < FileNames,
         global_file_number < FileNames
  PROVE  ScanInv'
<1> USE DEF leveldb, bounds, history
<1>0. TypeInv /\ LoadInv
  BY DEF BaseInv
<1>1. CASE UNCHANGED <<objects, tables, dropped, file_keys, faulted, strayed, task>>
  <2>1. \A t, p : LoadSame(t, p)
    BY <1>1 DEF LoadSame, Loads, Active
  <2> QED BY <1>1, <2>1, ScanCalm
<1>2. ASSUME NEW o \in 1 .. Len(objects), NEW job \in Jobs, LoadFromFiles(o, job) PROVE ScanInv'
  <2>1. UNCHANGED <<objects, tables, dropped, file_keys, faulted, strayed>>
    BY <1>2 DEF LoadFromFiles
  <2>2. \A i \in Tasks : ~Active(i) /\ ~Stored(i)'
    BY <1>0, <1>2, LoadInvLoads
  <2>3. \A t, p : Calm(t, p)
    BY <2>2 DEF Calm, Loads, Active, Stored
  <2> QED BY <2>1, <2>3, ScanCalm
<1>3. ASSUME NEW i \in Tasks, ReadLines(i) \/ DropTask(i) PROVE ScanInv'
  <2>1. /\ UNCHANGED <<objects, tables, dropped, file_keys, faulted, strayed>> /\ task[i].pc = "read"
        /\ Ends(i) \/ \E n : Reads(i, n)
    BY <1>0, <1>3, ReadLinesDoes DEF ReadLines, DropTask, Ends
  <2>2. CASE Ends(i)
    <3>1. ~Active(i)' /\ \A j \in Tasks : j # i => task'[j] = task[j]
      BY <1>0, <2>2, EndsFacts DEF Active, Idle
    <3> QED BY <2>1, <3>1, ScanReads
  <2>3. ASSUME NEW n, Reads(i, n) PROVE ScanInv'
    <3>1. /\ task'[i].pc \in {"read", "insert"} /\ \A j \in Tasks : j # i => task'[j] = task[j]
          /\ task'[i].obj = task[i].obj /\ task'[i].part = task[i].part
      BY <2>3 DEF Reads
    <3> QED BY <2>1, <3>1, ScanReads
  <2> QED BY <2>1, <2>2, <2>3
<1>4. ASSUME NEW i \in Tasks, IoError(i), task[i].pc = "number" PROVE ScanInv'
  <2>1. /\ UNCHANGED <<objects, tables, dropped, file_keys, strayed>> /\ faulted \subseteq faulted'
        /\ <<Table(i).name, task[i].part>> \in faulted' /\ Ends(i) /\ Active(i)
    BY <1>4 DEF IoError, Ends, Active
  <2>2. ~Active(i)' /\ \A j \in Tasks : j # i => task'[j] = task[j]
    BY <1>0, <2>1, EndsFacts DEF Active, Idle
  <2> QED BY <2>1, <2>2, ScanReads
<1>5. ASSUME NEW i \in Tasks,
             \/ InsertColumns(i) \/ GetNextFileNumber(i) \/ WriteRecordBatch(i) \/ PutFileKey(i)
             \/ OpenReader(i) \/ ReadRowNums(i) \/ WriteRowNums(i)
             \/ IoError(i) /\ task[i].pc # "number"
      PROVE  ScanInv'
  BY <1>5, ScanInserts, ScanNumbers, ScanPuts, ScanOpens, ScanCounts, ScanAdds, ScanFails
<1>6. ASSUME NEW t \in Tables, DeleteTable(t) \/ GetTable(t) PROVE ScanInv'
  BY <1>6, ScanDrops, ScanGets
<1>7. CASE Crash
  BY <1>7 DEF Crash, ScanInv
<1>8. CASE \/ \E t \in Tables, s \in Schemas, n \in 1 .. Partitions : RegisterTable(t, s, n)
           \/ OpenDatabase \/ UNCHANGED vars
  BY <1>1, <1>8 DEF RegisterTable, OpenDatabase, vars
<1> QED BY <1>2, <1>3, <1>4, <1>5, <1>6, <1>7, <1>8 DEF Next

\* What a scan reads of a partition nobody loads: the file of every reader.
LEMMA ScanIsReaders ==
  ASSUME NEW x, NEW p, NEW names, x.partition_tables[p] \in PartType,
         SliceOK(x.partition_tables[p], x.partition_bitmap[p], names, files, Idle)
  PROVE  LET part == x.partition_tables[p]
             scan == Scan(x, p)
         IN /\ DOMAIN scan = DOMAIN part.readers
            /\ \A k \in DOMAIN scan : scan[k] = files[part.readers[k]].chunk
            /\ ReadersDistinct(part) /\ names = ReaderSet(part)
<1>1. PICK part, bit, r, c : /\ part = x.partition_tables[p] /\ bit = x.partition_bitmap[p]
                             /\ r = part.readers /\ c = part.columns
  OBVIOUS
<1>2. /\ r \in Seq(Nat) /\ c \in Seq(Chunks) /\ part.chunk_nums \in Nat /\ Len(r) \in Nat
      /\ Len(c) \in Nat /\ DOMAIN r = 1 .. Len(r) /\ DOMAIN c = 1 .. Len(c)
  BY <1>1 DEF PartType
<1>3. Idle.pc = "idle" /\ Idle.pc \notin Inserting
  BY DEF Idle, Inserting
<1>4. /\ part.chunk_nums = Len(r) + 0 /\ ColumnsOK(part, files, Idle)
      /\ ReadersDistinct(part) /\ names = ReaderSet(part) /\ (bit = 0 => r = <<>>)
  BY <1>1, <1>3 DEF SliceOK
<1>5. part.chunk_nums = Len(r)
  BY <1>2, <1>4
<1>6. CASE bit = 0
  <2>1. Scan(x, p) = <<>> /\ r = <<>>
    BY <1>1, <1>4, <1>6 DEF Scan
  <2> QED BY <1>1, <1>4, <2>1
<1>7. CASE bit # 0
  <2>1. Scan(x, p) = [k \in 1 .. Len(r) |-> GetData(part, k - 1)]
    BY <1>1, <1>5, <1>7 DEF Scan
  <2>2. ASSUME NEW k \in 1 .. Len(r) PROVE GetData(part, k - 1) = files[r[k]].chunk
    <3>0. k - 1 + 1 = k
      BY <1>2
    <3>1. CASE Len(c) = part.chunk_nums
      <4>1. k \in DOMAIN c /\ part.chunk_nums - Len(c) + k = k
        BY <1>2, <1>5, <3>1
      <4>2. c[k] = ChunkAt(part, files, Idle, k)
        BY <1>1, <1>4, <4>1 DEF ColumnsOK
      <4> QED BY <1>1, <1>2, <3>0, <3>1, <4>2 DEF GetData, ChunkAt
    <3>2. CASE Len(c) # part.chunk_nums
      BY <1>1, <1>5, <3>0, <3>2 DEF GetData
    <3> QED BY <3>1, <3>2
  <2> QED BY <1>1, <1>2, <1>4, <2>1, <2>2
<1> QED BY <1>6, <1>7

LEMMA ScanMeetsDisk ==
  ASSUME BaseInv, ChunkInv, ScanInv, NEW t, NEW p, View(t, p), ~Loading(tables[t], p)
  PROVE  LET scan == Scan(objects[tables[t]], p) IN
         ToSet(scan) = OnDisk(t, p) /\ IsInjective(scan)
<1>1. PICK x, part, scan, r : /\ x = objects[tables[t]] /\ part = x.partition_tables[p]
                              /\ scan = Scan(x, p) /\ r = part.readers
  OBVIOUS
<1>2. SliceOK(part, x.partition_bitmap[p], Names(t, p), files, Idle) /\ part \in PartType
  <2>1. \A i \in Tasks : ~Loads(i, tables[t], p)
    BY DEF Loading, Loads, Active
  <2>2. ScanOK(t, p)
    BY DEF ScanInv, View
  <2> QED BY <1>1, <2>1, <2>2, ViewFacts DEF ScanOK
<1>3. /\ DOMAIN scan = DOMAIN r /\ ReadersDistinct(part) /\ Names(t, p) = ReaderSet(part)
      /\ \A k \in DOMAIN scan : scan[k] = files[r[k]].chunk
  <2>1. PICK names : names = Names(t, p)
    OBVIOUS
  <2>2. /\ x.partition_tables[p] \in PartType
        /\ SliceOK(x.partition_tables[p], x.partition_bitmap[p], names, files, Idle)
    BY <1>1, <1>2, <2>1
  <2>3. /\ DOMAIN Scan(x, p) = DOMAIN x.partition_tables[p].readers
        /\ \A k \in DOMAIN Scan(x, p) : Scan(x, p)[k] = files[x.partition_tables[p].readers[k]].chunk
        /\ ReadersDistinct(x.partition_tables[p]) /\ names = ReaderSet(x.partition_tables[p])
    BY <2>2, ScanIsReaders
  <2>4. /\ part = x.partition_tables[p] /\ r = x.partition_tables[p].readers
        /\ scan = Scan(x, p) /\ names = Names(t, p)
    BY <1>1, <2>1
  <2>5. DOMAIN scan = DOMAIN r /\ ReadersDistinct(part) /\ Names(t, p) = ReaderSet(part)
    BY ONLY <2>3, <2>4, Zenon
  <2>6. \A k \in DOMAIN scan : scan[k] = files[r[k]].chunk
    BY ONLY <2>3, <2>4, Zenon
  <2> QED BY <2>5, <2>6
<1>4. \A k \in DOMAIN r : \E key \in file_keys : key.table = t /\ key.part = p /\ key.name = r[k]
  <2>1. \A k \in DOMAIN r : r[k] \in Names(t, p)
    <3>1. r = part.readers /\ Names(t, p) = ReaderSet(part)
      BY ONLY <1>1, <1>3, Zenon
    <3> QED BY ONLY <3>1 DEF ReaderSet
  <2> QED BY <2>1 DEF Names
<1>5. \A key \in file_keys : key.table = t /\ key.part = p => \E k \in DOMAIN r : key.name = r[k]
  <2>1. \A key \in file_keys : key.table = t /\ key.part = p => key.name \in ReaderSet(part)
    BY <1>3 DEF Names
  <2> QED BY <1>1, <2>1 DEF ReaderSet
<1>6. ToSet(scan) = {scan[k] : k \in DOMAIN scan}
  BY DEF ToSet
<1>7. ToSet(scan) \subseteq OnDisk(t, p)
  BY <1>3, <1>4, <1>6 DEF OnDisk
<1>8. OnDisk(t, p) \subseteq ToSet(scan)
  BY <1>3, <1>5, <1>6 DEF OnDisk
<1>9. ASSUME NEW k \in DOMAIN scan, NEW l \in DOMAIN scan, scan[k] = scan[l] PROVE k = l
  <2>1. PICK a \in file_keys : a.name = r[k]
    BY <1>3, <1>4
  <2>2. PICK b \in file_keys : b.name = r[l]
    BY <1>3, <1>4
  <2>3. KeyChunk(a) = KeyChunk(b)
    BY <1>3, <1>9, <2>1, <2>2 DEF KeyChunk
  <2>4. r[k] = r[l]
    BY <2>1, <2>2, <2>3 DEF ChunkInv
  <2>5. k \in DOMAIN part.readers /\ l \in DOMAIN part.readers /\ part.readers[k] = part.readers[l]
    BY ONLY <1>1, <1>3, <1>9, <2>4, Zenon
  <2> QED BY ONLY <1>3, <2>5, Zenon DEF ReadersDistinct
<1>10. IsInjective(scan)
  BY <1>9 DEF IsInjective
<1> QED BY <1>1, <1>7, <1>8, <1>10

CacheInv == /\ BaseInv /\ DiskInv
            /\ global_file_number < FileNames => ChunkInv /\ ScanInv

LEMMA InitCacheInv == Init => CacheInv
<1> SUFFICES ASSUME Init PROVE ChunkInv /\ ScanInv
  BY InitBaseInv, InitDiskInv DEF CacheInv
<1>1. file_keys = {} /\ tables = [t \in Tables |-> 0] /\ task = [i \in Tasks |-> Idle]
  BY DEF Init
<1>2. ChunkInv
  BY <1>1 DEF ChunkInv, HeldInv, Stored, Idle
<1>3. ScanInv
  BY <1>1 DEF ScanInv
<1> QED BY <1>2, <1>3

LEMMA StepCacheInv == CacheInv /\ [Next]_vars => CacheInv'
<1> SUFFICES ASSUME CacheInv, [Next]_vars PROVE CacheInv'
  OBVIOUS
<1>1. BaseInv /\ DiskInv /\ BaseInv' /\ DiskInv' /\ KeysStay
  BY StepBaseInv, StepDiskInv, KeysKept DEF CacheInv
<1>2. ASSUME global_file_number' < FileNames PROVE ChunkInv' /\ ScanInv'
  <2>1. FileNames \in Nat /\ global_file_number \in Nat /\ ShapeInv
    BY <1>1, CatalogAssumption DEF DiskInv, ShapeInv
  <2>2. global_file_number' \in {global_file_number, global_file_number + 1}
    BY <2>1, NumbersGrow DEF vars, leveldb
  <2>3. global_file_number < FileNames
    BY <1>2, <2>1, <2>2
  <2>4. ChunkInv /\ ScanInv
    BY <2>3 DEF CacheInv
  <2> QED BY <1>1, <1>2, <2>3, <2>4, StepChunkInv, StepScanInv
<1> QED BY <1>1, <1>2 DEF CacheInv

(* A scan of a table in the cache reads every chunk that is on the disk    *)
(* exactly once and nothing else: the columns in memory and the readers,   *)
(* whichever get_data takes, are in step with the file keys after every    *)
(* sequence of loads, reopenings and crashes, for every number of tables,  *)
(* partitions and tasks with partitions of their own.  Not of a partition  *)
(* being loaded, that met an I/O error or was loaded through another       *)
(* object than the cached one, nor of a table deleted before, nor once     *)
(* the file numbers have outgrown their eight digits.                      *)
THEOREM ScanReadsDisk == Spec => []ScanReadsTheDisk
<1>1. CacheInv => ScanReadsTheDisk
  <2> SUFFICES ASSUME BaseInv, ChunkInv, ScanInv, NEW t \in Tables, tables[t] # 0, t \notin dropped,
                      NEW p \in DOMAIN objects[tables[t]].partition_tables,
                      ~Loading(tables[t], p), <<t, p>> \notin faulted \union strayed
               PROVE  LET scan == Scan(objects[tables[t]], p) IN
                      ToSet(scan) = OnDisk(t, p) /\ IsInjective(scan)
    BY DEF CacheInv, ScanReadsTheDisk
  <2>1. View(t, p)
    BY DEF View
  <2> QED BY <2>1, ScanMeetsDisk
<1> QED BY <1>1, InitCacheInv, StepCacheInv, PTL DEF Spec
=============================================================================
