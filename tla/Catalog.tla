------------------------------ MODULE Catalog -------------------------------
(***************************************************************************)
(* The catalog and the tables: metadata in a leveldb database, every chunk *)
(* of a partition in a parquet file of its own, a cache of Table objects.  *)
(* load_from_files runs one task per source file; PartitionedTable::       *)
(* insert_data goes on from memory to the disk in steps that other tasks,  *)
(* catalog calls and a crash of the process can fall between.              *)
(*                                                                         *)
(* A source file is a sequence of lines, TRUE if the line fits the schema. *)
(* A row is <<load, task, line>>, a chunk a sequence of rows.  Columns are *)
(* appended under one lock each.  Nothing makes the tasks of one load use  *)
(* partitions of their own; its callers do, and CatalogAssumption asks for *)
(* it: one sequence of chunks then stands for all columns.                 *)
(***************************************************************************)
EXTENDS Integers, Sequences, FiniteSets, SequencesExt

CONSTANTS
  Tables, Schemas,
  Partitions,      \* the largest partition_num a table is registered with
  Tasks,           \* the tasks of one load_from_files
  Jobs,            \* the loads: functions from some Tasks to [part, lines]
  chunk_size,
  FileNames,       \* names GetFileName can make: 10^8 in the code
  Null,            \* a null pointer, a missing entry
  MaxLoads, MaxHandles, MaxFaults, MaxCrashes, MaxDeletes   \* bounds of a run

ASSUME CatalogAssumption ==
  /\ {Partitions, chunk_size, FileNames} \subseteq Nat \ {0}
  /\ {MaxLoads, MaxHandles, MaxFaults, MaxCrashes, MaxDeletes} \subseteq Nat
  /\ \A job \in Jobs : \A i \in DOMAIN job :
       /\ job[i].part \in Nat /\ job[i].lines \in Seq(BOOLEAN)
       /\ \A j \in DOMAIN job : i # j => job[i].part # job[j].part

VARIABLES
  meta,                \* leveldb: a table's [schema, partition_num], or Null
  file_keys,           \* leveldb: the keys [table, part, name] and their row counts
  global_file_number,  \* leveldb: the last number given out, 0 if none
  files,               \* the directory: what the file of each name holds
  open,                \* the database is open
  objects,             \* the Table objects of this process, oldest first
  tables,              \* the cache: a table's index in objects, or 0
  task,                \* the state of each task
  loads, faults, crashes, deletes,   \* counters for the bounds
  put,                 \* history: the chunks whose file key was written
  faulted,             \* history: <<table, part>> that met an I/O error
  dropped,             \* history: the tables that were ever deleted
  strayed,             \* history: <<table, part>> with a key put through another
                       \*   object than the one in the cache
  miscounted           \* history: the objects two tasks counted rows in at once,
                       \*   or whose task got no file number

leveldb == <<meta, file_keys, global_file_number>>
bounds == <<loads, faults, crashes, deletes>>
history == <<put, faulted, dropped, strayed, miscounted>>
vars == <<leveldb, files, open, objects, tables, task, bounds, history>>

Idle == [pc |-> "idle", obj |-> 0, part |-> 0, lines |-> <<>>, line |-> 0,
         chunk |-> <<>>, number |-> 0, row_nums |-> 0]

NewPartition == [columns |-> <<>>, chunk_nums |-> 0, row_nums |-> 0, readers |-> <<>>]

\* No file of the name, or one that was not written to its end.
NoFile == [complete |-> FALSE, schema |-> Null, chunk |-> <<>>]

\* Table::initailize
NewTable(t) ==
  [name |-> t, schema |-> meta[t].schema, row_nums |-> 0, rc |-> "FAILED",
   partition_tables |-> [p \in 0 .. meta[t].partition_num - 1 |-> NewPartition],
   partition_bitmap |-> [p \in 0 .. meta[t].partition_num - 1 |-> 0]]

\* A name has eight digits: the number's higher ones are lost.
GetFileName(number) == number % FileNames

\* OpenParquetFile: the file must be there, complete and of the table's schema.
Opens(name, schema) == files[name].complete /\ files[name].schema = schema

\* CataLog::register_table: one atomic batch, nothing if the name is taken.
RegisterTable(t, schema, partition_num) ==
  /\ open
  /\ meta[t] = Null
  /\ meta' = [meta EXCEPT ![t] = [schema |-> schema, partition_num |-> partition_num]]
  /\ UNCHANGED <<file_keys, global_file_number, files, open, objects, tables, task,
                 bounds, history>>

\* CataLog::delete_table: the file keys and the files stay.
DeleteTable(t) ==
  /\ open /\ deletes < MaxDeletes
  /\ meta[t] # Null
  /\ tables' = [tables EXCEPT ![t] = 0]
  /\ meta' = [meta EXCEPT ![t] = Null]
  /\ deletes' = deletes + 1
  /\ dropped' = dropped \union {t}
  /\ UNCHANGED <<file_keys, global_file_number, files, open, objects, task, loads, faults,
                 crashes, put, faulted, strayed, miscounted>>

\* PartitionedTable::insert_data(reader)
AddReader(part, key) ==
  [part EXCEPT !.readers = Append(@, key.name),
               !.row_nums = @ + key.row_count,
               !.chunk_nums = @ + 1]

\* Mutant: the rows of a reopened file are counted in its partition only.
ReaderNotCounted(table, key) ==
  IF key.part \notin DOMAIN table.partition_tables THEN table
  ELSE [table EXCEPT !.partition_tables[key.part] = AddReader(@, key),
                     !.partition_bitmap[key.part] = 1]

\* Table::insert_data(reader): a partition the table lacks is passed over.
InsertReader(table, key) ==
  IF key.part \notin DOMAIN table.partition_tables THEN table
  ELSE [table EXCEPT !.partition_tables[key.part] = AddReader(@, key),
                     !.partition_bitmap[key.part] = 1,
                     !.row_nums = @ + key.row_count]

\* The keys file|t|... in the order of the iterator: the set has this one sequence.
FileKeysOf(t) ==
  LET mine == {k \in file_keys : k.table = t}
      Before(j, k) == j.part < k.part \/ (j.part = k.part /\ j.name < k.name)
  IN  {keys \in [1 .. Cardinality(mine) -> mine] :
         /\ ToSet(keys) = mine
         /\ \A i, j \in DOMAIN keys : i < j => Before(keys[i], keys[j])}

\* The table after each of the keys.
Filled(t, keys) ==
  LET filled[n \in 0 .. Len(keys)] ==
        IF n = 0 THEN NewTable(t) ELSE InsertReader(filled[n - 1], keys[n])
  IN  filled

\* How many of the files open before the first that does not; an open may also
\* fail for a reason of its own.
OpenedBefore(keys, schema) ==
  {n \in 0 .. Len(keys) :
     /\ \A i \in 1 .. n : Opens(keys[i].name, schema)
     /\ (n < Len(keys) /\ Opens(keys[n + 1].name, schema)) => faults < MaxFaults}

\* CataLog::get_table of a table that is not in the cache.  After a file that
\* does not open it returns FAILED, but the caller has the table as far as it
\* was filled; rc is what this caller was told.
GetTable(t) ==
  /\ open /\ Len(objects) < MaxHandles
  /\ tables[t] = 0
  /\ meta[t] # Null
  /\ \E keys \in FileKeysOf(t) : \E n \in OpenedBefore(keys, meta[t].schema) :
       /\ objects' = Append(objects, IF n = Len(keys)
                                       THEN [Filled(t, keys)[n] EXCEPT !.rc = "SUCCESS"]
                                       ELSE Filled(t, keys)[n])
       /\ tables' = IF n = Len(keys) THEN [tables EXCEPT ![t] = Len(objects) + 1] ELSE tables
       /\ faults' = IF n < Len(keys) /\ Opens(keys[n + 1].name, meta[t].schema)
                      THEN faults + 1 ELSE faults
  /\ UNCHANGED <<leveldb, files, open, task, loads, crashes, deletes, history>>

\* load_from_files, or load_from_single_file with a job of one task: the caller
\* waits for all tasks, so there is one load at a time.  Only a null pointer is
\* refused: the table may be one get_table has returned FAILED for.
LoadFromFiles(o, job) ==
  /\ open /\ loads < MaxLoads
  /\ \A i \in Tasks : task[i].pc = "idle"
  /\ loads' = loads + 1
  /\ task' = [i \in Tasks |->
       IF i \in DOMAIN job
         THEN [Idle EXCEPT !.pc = "read", !.obj = o, !.part = job[i].part, !.lines = job[i].lines]
         ELSE Idle]
  /\ UNCHANGED <<leveldb, files, open, objects, tables, faults, crashes, deletes, history>>

\* The partition a task inserts into.
Partition(i) == objects[task[i].obj].partition_tables[task[i].part]
Table(i) == objects[task[i].obj]

\* load_from_single_file_func up to make_chunk: chunk_size lines, or the last
\* ones.  A line that does not fit ends the task and the rows read since the
\* last chunk are dropped.  Table::insert_data refuses a partition the table
\* lacks, which nobody looks at.
ReadLines(i) ==
  LET me == task[i]
      left == Len(me.lines) - me.line
      n == IF left < chunk_size THEN left ELSE chunk_size
      fits == \A k \in 1 .. n : me.lines[me.line + k]
  IN /\ me.pc = "read"
     /\ task' = [task EXCEPT ![i] =
          IF n = 0 \/ ~fits THEN Idle
          ELSE [me EXCEPT
                  !.pc = IF me.part \in DOMAIN Table(i).partition_tables THEN "insert" ELSE "read",
                  !.line = me.line + n,
                  !.chunk = [k \in 1 .. n |-> <<loads, i, me.line + k>>]]]
     /\ UNCHANGED <<leveldb, files, open, objects, tables, bounds, history>>

\* Scheduler::shutdown ends a worker whose task is still in its queue: the load
\* returns although this file was never read (WorkerPool).
DropTask(i) ==
  /\ task[i].pc = "read" /\ task[i].line = 0
  /\ task' = [task EXCEPT ![i] = Idle]
  /\ UNCHANGED <<leveldb, files, open, objects, tables, bounds, history>>

\* PartitionedTable::insert_data, the part in memory.
AddChunk(part, chunk) ==
  [part EXCEPT !.columns = Append(@, chunk),
               !.row_nums = @ + Len(chunk),
               !.chunk_nums = @ + 1]

InsertColumns(i) ==
  /\ task[i].pc = "insert"
  /\ objects' = [objects EXCEPT ![task[i].obj].partition_tables[task[i].part] =
                   AddChunk(@, task[i].chunk)]
  /\ task' = [task EXCEPT ![i].pc = "number"]
  /\ UNCHANGED <<leveldb, files, open, tables, bounds, history>>

\* Mutant: the number is not written back.
NumberNotPut(i) ==
  /\ task[i].pc = "number"
  /\ task' = [task EXCEPT ![i] = [@ EXCEPT !.pc = "write", !.number = global_file_number + 1]]
  /\ UNCHANGED <<leveldb, files, open, objects, tables, bounds, history>>

\* CataLog::get_next_file_number, under the catalog's lock.
GetNextFileNumber(i) ==
  /\ task[i].pc = "number"
  /\ global_file_number' = global_file_number + 1
  /\ task' = [task EXCEPT ![i] = [@ EXCEPT !.pc = "write", !.number = global_file_number + 1]]
  /\ UNCHANGED <<meta, file_keys, files, open, objects, tables, bounds, history>>

FileName(i) == GetFileName(task[i].number)

\* WriteRecordBatchToDisk
WriteRecordBatch(i) ==
  /\ task[i].pc = "write"
  /\ files' = [files EXCEPT ![FileName(i)] =
                 [complete |-> TRUE, schema |-> Table(i).schema, chunk |-> task[i].chunk]]
  /\ task' = [task EXCEPT ![i].pc = "put"]
  /\ UNCHANGED <<leveldb, open, objects, tables, bounds, history>>

\* The key file|table|partition|name, with the row count, makes the file part of
\* the table.
PutFileKey(i) ==
  LET key == [table |-> Table(i).name, part |-> task[i].part, name |-> FileName(i)] IN
  /\ task[i].pc = "put"
  /\ file_keys' = {k \in file_keys : [table |-> k.table, part |-> k.part, name |-> k.name] # key}
                  \union {[table |-> key.table, part |-> key.part, name |-> key.name,
                           row_count |-> Len(task[i].chunk)]}
  /\ put' = put \union {[table |-> key.table, part |-> key.part, chunk |-> task[i].chunk]}
  /\ task' = [task EXCEPT ![i].pc = "open"]
  /\ strayed' = IF tables[key.table] \in {0, task[i].obj} THEN strayed
                ELSE strayed \union {<<key.table, key.part>>}
  /\ UNCHANGED <<meta, global_file_number, files, open, objects, tables, bounds, faulted,
                 dropped, miscounted>>

\* The reader of the new file joins the partition's readers.
OpenReader(i) ==
  /\ task[i].pc = "open"
  /\ objects' = [objects EXCEPT ![task[i].obj].partition_tables[task[i].part].readers =
                   Append(@, FileName(i))]
  /\ task' = [task EXCEPT ![i].pc = "count"]
  /\ UNCHANGED <<leveldb, files, open, tables, bounds, history>>

\* The file number cannot be had: the exception ends the task.  The file, its key
\* or its reader fails: IO_ERROR, which Table::insert_data does not look at.  A
\* file that fails is left incomplete.
IoError(i) ==
  /\ faults < MaxFaults
  /\ task[i].pc \in {"number", "write", "put", "open"}
  /\ faults' = faults + 1
  /\ faulted' = faulted \union {<<Table(i).name, task[i].part>>}
  /\ task' = IF task[i].pc = "number" THEN [task EXCEPT ![i] = Idle]
                                      ELSE [task EXCEPT ![i].pc = "count"]
  /\ files' = IF task[i].pc = "write" THEN [files EXCEPT ![FileName(i)] = NoFile] ELSE files
  /\ miscounted' = IF task[i].pc = "number" THEN miscounted \union {task[i].obj} ELSE miscounted
  /\ UNCHANGED <<leveldb, open, objects, tables, loads, crashes, deletes, put, dropped, strayed>>

\* Table::insert_data again: the bit of the partition, and row_nums += rows, a
\* read and a write without a lock.
ReadRowNums(i) ==
  /\ task[i].pc = "count"
  /\ objects' = [objects EXCEPT ![task[i].obj].partition_bitmap[task[i].part] = 1]
  /\ task' = [task EXCEPT ![i] = [@ EXCEPT !.pc = "add", !.row_nums = Table(i).row_nums]]
  /\ miscounted' = IF \E j \in Tasks \ {i} : task[j].pc = "add"
                     THEN miscounted \union {task[i].obj} ELSE miscounted
  /\ UNCHANGED <<leveldb, files, open, tables, bounds, put, faulted, dropped, strayed>>

WriteRowNums(i) ==
  /\ task[i].pc = "add"
  /\ objects' = [objects EXCEPT ![task[i].obj].row_nums = task[i].row_nums + Len(task[i].chunk)]
  /\ task' = [task EXCEPT ![i].pc = "read"]
  /\ UNCHANGED <<leveldb, files, open, tables, bounds, history>>

\* The process dies or ends.  What leveldb and the file system were given stays;
\* a file being written is incomplete.
Crash ==
  /\ open /\ crashes < MaxCrashes
  /\ crashes' = crashes + 1
  /\ open' = FALSE
  /\ objects' = <<>>
  /\ tables' = [t \in Tables |-> 0]
  /\ task' = [i \in Tasks |-> Idle]
  /\ faulted' = {} /\ strayed' = {} /\ miscounted' = {}
  /\ UNCHANGED <<leveldb, files, loads, faults, deletes, put, dropped>>

\* OpenDatabase of a database that exists.
OpenDatabase ==
  /\ ~open
  /\ open' = TRUE
  /\ UNCHANGED <<leveldb, files, objects, tables, task, bounds, history>>

\* OpenDatabase of a new one.
Init ==
  /\ meta = [t \in Tables |-> Null]
  /\ file_keys = {}
  /\ global_file_number = 0
  /\ files = [name \in 0 .. FileNames - 1 |-> NoFile]
  /\ open = TRUE
  /\ objects = <<>>
  /\ tables = [t \in Tables |-> 0]
  /\ task = [i \in Tasks |-> Idle]
  /\ loads = 0 /\ faults = 0 /\ crashes = 0 /\ deletes = 0
  /\ put = {} /\ faulted = {} /\ dropped = {} /\ strayed = {} /\ miscounted = {}

Next ==
  \/ \E t \in Tables, s \in Schemas, n \in 1 .. Partitions : RegisterTable(t, s, n)
  \/ \E t \in Tables : DeleteTable(t) \/ GetTable(t)
  \/ \E o \in 1 .. Len(objects), job \in Jobs : LoadFromFiles(o, job)
  \/ \E i \in Tasks : \/ ReadLines(i)
                      \/ DropTask(i)
                      \/ InsertColumns(i)
                      \/ GetNextFileNumber(i)
                      \/ WriteRecordBatch(i)
                      \/ PutFileKey(i)
                      \/ OpenReader(i)
                      \/ IoError(i)
                      \/ ReadRowNums(i)
                      \/ WriteRowNums(i)
  \/ Crash
  \/ OpenDatabase

Spec == Init /\ [][Next]_vars

-----------------------------------------------------------------------------
\* Mutant: the columns whenever there are any.
GetDataFromColumns(p, idx) ==
  IF p.columns # <<>>
    THEN IF idx + 1 \in DOMAIN p.columns THEN p.columns[idx + 1] ELSE Null
    ELSE IF Len(p.readers) = p.chunk_nums THEN files[p.readers[idx + 1]].chunk ELSE Null

\* PartitionedTable::get_data for idx < chunk_nums: the columns in memory, if all
\* chunks came through insert_data since the object was made, else the files.
GetData(p, idx) ==
  IF Len(p.columns) = p.chunk_nums THEN p.columns[idx + 1]
  ELSE IF Len(p.readers) # p.chunk_nums THEN Null
  ELSE files[p.readers[idx + 1]].chunk

\* What the scan of a partition reads, chunk by chunk; partitions without their
\* bit get no pipeline.
Scan(table, p) ==
  IF table.partition_bitmap[p] = 0 THEN <<>>
  ELSE LET part == table.partition_tables[p]
       IN [k \in 1 .. part.chunk_nums |-> GetData(part, k - 1)]

Loading(o, p) == \E i \in Tasks : task[i].pc # "idle" /\ task[i].obj = o /\ task[i].part = p

\* What the keys and files on the disk say partition p of t holds.
OnDisk(t, p) == {files[k.name].chunk : k \in {k \in file_keys : k.table = t /\ k.part = p}}

\* Every chunk whose file key was written is on the disk under that key, whole
\* and with its row count, and under no other; every key has its file, so that
\* get_table can open it.  This holds through any crash between the steps of
\* insert_data, as long as file numbers have not outgrown their eight digits.
ChunksDurable ==
  global_file_number < FileNames =>
    /\ \A k \in file_keys :
         /\ files[k.name].complete
         /\ k.row_count = Len(files[k.name].chunk)
         /\ [table |-> k.table, part |-> k.part, chunk |-> files[k.name].chunk] \in put
    /\ \A c \in put : \E k \in file_keys :
         files[k.name].chunk = c.chunk /\ k.table = c.table /\ k.part = c.part
    /\ \A j, k \in file_keys : j.name = k.name => j = k

\* A scan of a table in the cache reads every chunk that is on the disk exactly
\* once and nothing else, whether the table was just loaded, reopened, or
\* reopened and loaded again, and never a null pointer.  Left out: partitions
\* being loaded, partitions that met an I/O error, tables that were deleted
\* before, and partitions loaded through an object that is not the cached one,
\* as after a get_table that returned FAILED ("the same table can be got only
\* once", says its note, and nothing holds a caller to it).  As everywhere here,
\* the tasks of a load have partitions of their own.
ScanReadsTheDisk ==
  global_file_number < FileNames =>
    \A t \in Tables : tables[t] # 0 /\ t \notin dropped =>
      LET table == objects[tables[t]] IN
      \A p \in DOMAIN table.partition_tables :
        ~Loading(tables[t], p) /\ <<t, p>> \notin faulted \union strayed =>
          LET scan == Scan(table, p) IN
          /\ ToSet(scan) = OnDisk(t, p)
          /\ IsInjective(scan)

\* The rows of all partitions, which are numbered from 0.
TotalRows(rows) ==
  LET sum[n \in 0 .. Cardinality(DOMAIN rows)] ==
        IF n = 0 THEN 0 ELSE sum[n - 1] + rows[n - 1]
  IN  sum[Cardinality(DOMAIN rows)]

\* The row count of a table is that of its partitions between inserts, whatever
\* was loaded, refused or reopened and whatever file, key or reader failed,
\* unless two tasks of a load counted at once or no file number could be had;
\* then it may be too small, never too large.  The tasks of a load have
\* partitions of their own.
RowsCounted ==
  \A o \in DOMAIN objects :
    LET table == objects[o]
        Pending(p) == \E i \in Tasks : /\ task[i].obj = o /\ task[i].part = p
                                       /\ task[i].pc \in {"number", "write", "put", "open",
                                                          "count", "add"}
        total == TotalRows([p \in DOMAIN table.partition_tables |->
                              table.partition_tables[p].row_nums])
    IN /\ table.row_nums <= total
       /\ /\ o \notin miscounted
          /\ \A p \in DOMAIN table.partition_tables : ~Pending(p)
          => table.row_nums = total
=============================================================================
