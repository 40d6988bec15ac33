# A verification project for db-memory-model

TLA+ modules of the in-memory relational store under `src/`, the TLC runs that check
them on small instances, and TLAPS proofs of their main properties for all instances.
`PROJECT.json` lists the parts of the system, the runs, the code each definition stands
for, the hazards of this code and what covers them, and the theorems.

## 1. The system

The program loads the tables of a relational database into memory, indexes their rows by
key and by reference, lets a client add, change and delete rows, and writes the changes
back. The tables come from configuration files that describe them and from SQL databases,
or, one of them, from a file of JSON lines. There is one thread in the store; threads meet
only in the configuration manager.

| Part | State | Operations | What makes it correct |
|---|---|---|---|
| `TableManager` | the `TableIndex` array, the set of incomplete rows, the allocator | `init_data(hash_index_on, reverse_index_on)`, `set_reverse_index`, `get_table_index`, `insert_incom_key`, `incomplete`, `destroy` | the tables it loads are indexed consistently in whatever stages and modes that happens |
| `TableIndex` | `data_`, `row_num_`, the `RowIndex` array, `hash_index_`, `insert_deque_`, `data_path_`, `has_data_`, `has_reverse_index_` | `init`, `set_reverse_index`, `add`, `get_row_index` by key and by number, the iterator | a key leads to a row with that key |
| `RowIndex` | `row_data_`, `column_array_`, `reverse_index_list_`, `row_stat_` | `init`, `set_offset`, `set_column_data`, `del`, `set_reverse_index`, `del_reverse_index` | the reverse list holds exactly the references to the row; a row that is referred to is not deleted |
| `MMAllocator` | chunks, big chunks, the current offset, the memory per flag | `alloc_mm`, `mark_mm_flag`, `delete_mm` | blocks are aligned, in bounds and apart |
| `SqlDb`, `SqliteDao`, `MysqlDao`, `PgDao` | the connection, `error_msg_`, `is_init_` | `init` (database to files), `save` (memory to database) | a save with a transaction is atomic and sends every change |
| `JsonDao`, `JsonFileDao` | `is_init_`, the file | `init`, `save` | unless a write failed or a process died in it, what is saved is loaded again, and what is loaded is one save's rows |
| `SchemaManager`, `TableSchema` | the schema array, the references to each table | `init`, `set_foreign_key_ref` | one schema per table file at the place its id names, references in both directions |
| `FileManager` | the list of files, a cursor | `ls_dir`, `init`, `get_next`, `reset` | a sorted list that holds every file once, up to a limit |
| `ConfManager` | tables of configuration, their names and schemas, the replaced ones, a mutex | `get_table`, `update_table`, `clear`, `get_conf_file`, `get_so_file` | a handle leads to the table it was asked for while it is used |
| `ComLog` | log files' descriptors, the day | `set_task_id`, `write_log` | one open descriptor per log |
| `Parser` | none | `parse_str`, `parse_value` | what is written is read back |
| `RowInstance`, `X_CLASS` | a `RowIndex` pointer | typed `get` and `set`, `del`, `add` | the buffers it hands to the store outlive their use |

How they interact. `main` builds a `SchemaManager`, then a `TableManager`, which places
all its memory in an `MMAllocator`. The `init` of a DAO runs a select for every table,
writes the rows to a file and sets that table's data path and row number. `init_data` maps
the files, fills the hash indexes, and then walks the rows of every table to enter each
reference in the list of the row it leads to; references that lead nowhere are put in the
set of incomplete rows. `set_column_data` and `del` look rows of *other* tables up in their
hash indexes and change *their* reverse lists. `save` iterates over all rows and sends a
delete, or a delete and an insert, for every changed one.

What is hard in it:

* the reverse index is kept up to date by finding the old referent through the current
  value of a column, so its correctness rests on the hash index never changing its answer
  for a key (a key is set once; the first row of a key stays the one that is found);
* `init_data` can be called in stages and modes, can stop at a malformed file, and runs
  over tables whose rows a client has changed meanwhile;
* deleting a row depends on lists that all earlier operations of other rows have left;
* `save` ignores the results of begin and commit, runs over several tables, and any
  statement can fail, within a transaction or without one; the process can end anywhere in it;
* the allocator never gives back a block, goes on when memory cannot be had, and rounds
  sizes within an `int`;
* keys are pointers into buffers whose lifetimes differ;
* columns are found at 16-bit offsets, and every change of a column copies the row into a
  block whose size another loop has counted;
* table ids, places in the schema array and the order of files in a directory are taken for
  each other;
* a DAO's `init` can be called with tables missing, without a connection, or after another
  DAO's, and `is_init_` is set whether it succeeded or not;
* the JSON file is emptied before it is written, and no write to it is checked;
* the configuration manager locks look-ups, and neither refreshes nor clears.

## 2. The modules

| Module | Stands for | Kind |
|---|---|---|
| `RowStore` | `TableManager`, `TableIndex`, `RowIndex` and what a DAO's `init` leaves for them | specification |
| `MCRowStore` | schemas and row sets for TLC | instance |
| `RowStoreProof` | type correctness, the hash index and the reverse index | proofs |
| `RowIndex` | the same store with the bytes of files and rows, offsets and lists; refines `RowStore` | specification |
| `MCRowIndex` | values of 0 and 2 bytes, offsets below 8 | instance |
| `RowIndexProof` | what is read of files and rows, and that `RowIndex` implements `RowStore` | proofs |
| `AtomicSave` | what a save promises | abstract specification |
| `DaoSave` | `save()` of the three SQL DAOs, refines `AtomicSave` | specification |
| `MCDaoSave` | tables and bounds for TLC | instance |
| `DaoSaveProof` | a save with a transaction is atomic | proofs |
| `FileManager` | the listing of a directory, its sort and its cursor | component |
| `SchemaManager` | `SchemaManager` and `TableSchema` on top of it | component |
| `Startup` | both with the `init` of several DAOs and the first `init_data` | composition |
| `MCStartup` | directory trees, configurations and DAOs | instance |
| `StartupProof` | the listing of any tree, the schemas and references loaded from it, the rows of the files | proofs |
| `JsonDao` | `JsonFileDao` and `JsonDao` over the life of several processes | specification |
| `MCJsonDao` | rows and first files | instance |
| `JsonDaoProof` | what is loaded is one save's rows; what is saved survives | proofs |
| `MMAllocator` | the allocator | specification |
| `MCMMAllocator` | small chunks, boundary sizes | instance |
| `MMAllocatorProof` | blocks are in bounds, apart and accounted to their flags | proofs |
| `ConfManager` | the tables of `ConfManager`, its mutex and the threads that use it | specification |
| `MCConfManager` | two threads, two tables | instance |
| `ConfManagerProof` | alignment, handles and refreshes | proofs |
| `Arrangement` | the members of a finite set in an order, sums and joined texts, without recursion the provers cannot unfold | operators |
| `NumberFacts` | induction, recursion, least and greatest elements, sums, arrangements and joined texts | proofs |

Operators next to a definition, commented `mutant`, are the forms a plausible bug would
give that definition; they are used by no specification. `PROJECT.json` says which
property refutes which of them.

### RowStore

Variables are the members of the classes: `hasData` is the set of tables with `has_data_`,
`hash[t]` the `hash_index_` of table `t`, `rev[r]` the `reverse_index_list_` of row `r`,
`stat[r]` its `row_stat_`, `data[r]` what its bytes say (`None` while `row_data_` is NULL).
`base` are rows of files and `added` those of the insert deques. A reverse list is the set
of its `<<column, row>>` entries: `push_back` adds at the end, `del_reverse_index` removes
all entries of a row, `del` asks whether the list is empty, and none of them tells the
order or the number of equal entries apart.

Actions: `DaoInit` (a DAO writes the files of some tables), `InitData` (the whole of
`init_data`, with both switches and the table it stops at, the hash indexes and the reverse
index included), `Add`, `SetColumn` (the refusal to set a key twice, the entry in the hash
index, the move of the reverse entry, the new contents and the status), `Del`.

Assumptions, each from the code:

* the set of `bsl::hashmap`, which is not in the repository, keeps the value of a key that
  is there (its flag's default is not to overwrite), and works on a map that was not
  created explicitly, as `set_hash` needs it when a table was loaded without hash index;
* a key's buffer lives as long as its entry (see the hazards for where it does not);
* a client does not call `init_data` again after it failed: `TableIndex::init` would start
  over on a row array in use;
* a DAO fills a table once, before the table has data;
* a client does not reach for the malformed row at which a load stopped: `set_offset` has
  set its `row_data_` and offsets before it fails (`row_index.cpp:132`, `:151-153`), so that
  it can be had by number and read, which the model leaves out;
* a new row that was never written has no foreign key when it is deleted: `del()` would
  read their values through NULL;
* a new row reads as zeros before its first change: its offsets lie in a fresh chunk of
  64 MB, which the C library maps from zero pages.

### RowIndex

`RowIndex` has the state of `RowStore` at the level of bytes: `file[t]` is what a DAO
printed, `buf[r]` the text from `row_data_` on, `offset[r]` the `column_array_` with its
16-bit entries, `block[r]` the size that `set_column_data` asked the allocator for, and
`list[r]` the `IndexList` in its order. `DaoInit` prints lines (`Printed`). `InitData`
walks each file by the row ends that `set_offset` computes: `Starts` is its `cur_offset`,
row by row, `Stop` the table at which a row is not accepted, `Read` the rows before that.
Rows are numbers, so that "in the order of the file" is their order. `SetColumn` counts
(`Room`), copies (`Copied`) and finds the offsets again (`Offsets`), `Del` and `DelReverse`
take entries out of lists. A column is read by `strlen` from its offset, as in
`get_column_data`.

The refinement mapping gives `RowStore` the columns that the bytes say (`Data`) and the
sets of the lists' entries; `ImplementsStore` is `RowStore!Spec` under it. What the two
modules say of loading, changing and deleting is thus checked against each other, and what
is proved of `RowStore` holds of the bytes.

`OffsetAssumption` says that the last column of the longest row starts at an offset that
fits: beyond it the offsets are negative and reads leave the row, which the hazards list.
A schema's columns and keys are constants; the 1024-byte buffer on the stack through which
a new row is read is not modelled (its overrun is undefined).

### DaoSave and AtomicSave

`AtomicSave` says what a save promises. With a transaction open the database takes on all
changes of the rows in memory in one step, or none: for each key of each table with data
the last changed row counts (`Save`). Without one each statement counts by itself, and what
is promised is that it is about a changed row (`Statement`).

`DaoSave` runs the loops of `save()` statement by statement. `array` and `deque` are the
rows of a table's file and those added, `at` the table and the `index_` of the iterator
(`More` and `RowAt` are its two branches, `NextRow` its increment). `Begin` is the entry with
`start_transaction`, `EndOfTable` and `SkipRow` are the turns that send nothing, `DeleteData`
and `InsertData` the two statements, `Fail` either of them failing, `Commit` and `RollBack`
the end, `Crash` the end of the process anywhere. The result of `start_transaction` is
ignored in all three DAOs (`sqlite_dao.cpp:177`, `mysql_dao.cpp:201`, `pg_dao.cpp:193`): in
the model it may fail, within an open transaction, which goes on, and with none open, after
which every statement changes the database at once (`Execute`), a failure leaves those
before it done, and a crash can fall between the delete of a row and its insert. The
refinement mapping gives `AtomicSave` the rows of a table in the order of their numbers
(`mem`); the rest is shared, so `SaveIsAtomic` is the abstract specification itself. The
name says what holds with a transaction; the definition says what holds without one.

The three DAOs have the same loop; what differs is the database behind them:
`OpenAfterFailure` says whether a failed commit leaves the transaction open (SQLite, when
the database is busy) or ends it. A statement's text is not modelled; what it does is: a
delete by the first column, an insert of the row. Rows have keys that are not empty (an
empty one is left out of the insert). `save()` can return 0 although the commit failed, and
can return the message of an earlier failure after a success (`pg_dao.cpp:237`); the model
has `msg`, and no property promises what the code does not.

### FileManager, SchemaManager and Startup

`FileManager` runs `ls_dir` call by call: `stack` holds the recursive calls with the
entries each has not read yet, and `readdir` gives them in any order. `Enter` is the entry
of a call (limit, `opendir`), `ReadDir`, `ReadFile` and `EndOfDir` the turns of its loop,
`EndListing` the sort (`Sorted` arranges the entries by `Before`, the comparison that
`std::sort` is given; equal entries, which a second listing brings, stay side by side). A
directory that `opendir` refuses (`locked`) counts as one that was read. At the limit a
call returns without `closedir`; the limit is not asked for after a subdirectory, so that
each directory above may add one more file. `depth` is a history variable: how many calls
were under way when the limit was reached. The list is never cleared: a second `init`
finds its files twice.

`SchemaManager` adds `init`: `LoadFile` is one turn of the loop that reads the next table
file into the next entry of the array, `EndInit` the comparison with `table_num` and
`set_foreign_key_ref`. `count` can pass the array, and a foreign key can name a table that
is not in it (`00.table` of the `ttf_model` refers to a table 6): both write beyond the array
and have no defined outcome, so the model sets `overrun` and the properties promise nothing
after it. A client calls `init` again after a failure, perhaps with corrected files.

`Startup` lets DAOs of the three kinds follow: the file and the path of a table are named by
its `table_id`, the row number goes to the place in the array. A query that fails leaves the
path set and the file empty; SQLite and PostgreSQL go on with the next table, MySQL ends;
without a connection PostgreSQL goes on all the same, with every query failing. A second
DAO truncates the files of the first. `InitData` maps the files; `beyond` records that a
table has more rows to walk than its file holds.

### JsonDao

A process is `down`, `up` or, in `save`, `writing`. `InitDao`, `InitData`, `Add`, `Change`,
`Del`, `Save`, `WriteLine` and `EndSave` are its steps, `Crash` its end anywhere, with a cut
line in the file. A row is a value, `Canon` what writing and reading makes of it (numbers
lose their spelling), `Long` a row beyond the line buffer, `Shifted` one with a NUL in a
string, which moves the columns after it, so that `init_data` stops there. `Unreadable`
rows (added and never written, or not reached by `init_data`) are read through NULL by
`save`, which is taken to end the process. `gathered`, `complete`, `owed` and `careless` are
history variables.

The results of `fopen`, `fwrite` and `fclose` are of no consequence to `save`
(`json_file_dao.cpp:65-77`): `Save` may find that the file cannot be opened, and then ends
the process in `fwrite`, or returns 0 when there is nothing to write; `WriteFails` drops a
line, leaves a part of it (`Broken`), or a part that the rest of a later line completes to
one that parses (`Spliced`); `EndSave` returns 0 whatever failed. A save of which a write
failed sets `torn` until the next one opens the file, and makes the run `careless` for good.
The two properties are about the rest, and say so; what such a save leaves is lost or mixed.
Likewise `init` may not be able to open the data file for the lines it converts.

Not modelled: a JSON file that does not exist (`fopen`'s NULL is used by `fgets`), a data
file that is cut as it is printed, the bytes of a line that `fgets` and its caller cut,
the blocks of 10 MB that nothing compares with their contents, and the variants that take
a `Json::Value`, which do the same on a vector of rows.

### MMAllocator

`chunk` and `big` are the used entries of `chunk_` and `big_chunk_`, each `"held"` or
`"NULL"`; `offset` is `cur_offset_`. `blocks` is a history variable with the blocks handed
out, so that properties can speak of them. When a chunk could not be had `cur_` is NULL and
blocks are at offsets from NULL (`Cur`): those of two such chunks are the same addresses,
so that a block's array is then `"NULL"` and `NoOverlap`, which is about memory, leaves it
out. `RealSize` is the mask `(size + 7) & 0x7ffffff8` as arithmetic with the width as a
parameter.

### ConfManager

`names`, `schemas`, `tables` and `old` are the four arrays, `lock` the holder of
`table_mutex_`, `pc` and `job` where each thread is in its call and the call's locals.
A load is a step per array, in the order of the code (`Connect` pushes the name, `Query`
the columns, `Store` the rows), so that two loads interleave wherever nothing prevents it.
`get_table` runs from `Acquire` to `Unlock`; `update_table` (its search, `Replace` for the
push to `old_table_array_`, the load), `clear` and `clear_all` take no lock, as in the code.
The constant `Quiet` is a discipline of the clients that would make up for this: the set of
those three calls that they make only while no other thread is in a call. With `Quiet`
empty any of them happens at any time, `clear_all` in the middle of a load included.
The database is external:
a connection fails before anything is stored, a query fails after the name is, and a result
that cannot be had is not reported (`QueryFails`). Calling `mysql_real_connect` again on a
handle that is connected may succeed or be such a failed connection. `given` and `failed`
are history variables: the indexes handed out, and whether a query has failed since the
arrays were last empty.

One `push_back` is one step also where two threads may be in it; a data race inside the
vector is undefined behaviour and can only do worse than the interleavings here.

## 3. The runs

| Run | Instance | Checks |
|---|---|---|
| `store_two_links` | one node, two links with two foreign keys, one key and empty, default switches | `TypeOK`, `RevLive`, `IndexedOrIncomplete`, `NormalProtected` |
| `store_staged` | two nodes, one link, keys `k1`, `k2` and empty, any DAO fills any tables, all four modes, table 1 without a row key | `HashSound`, `RevSound`, `IndexedOrIncomplete` |
| `reference_kept` | the same rows, default switches | finds `ReferenceKept` violated |
| `deleted_unreferenced` | the same rows, default switches | finds `DeletedUnreferenced` violated |
| `row_index` | an empty table and one of two rows with three columns that refers to itself, values of 0 and 2 bytes, offsets below 8 | `TypeOK`, `RowInBlock`, `ImplementsStore` |
| `save` | tables 0 and 2 with data and 1 without, one key, two values, transactions that cannot be started; fairness of the save | `TypeOK`, `Agreement`, `AllSent`, `SaveIsAtomic`, `SaveReturns` |
| `allocator` | chunks of 32 bytes, 8-bit ints, four blocks, failing allocations | `TypeOK`, `InBounds`, `NoOverlap`, `ZoneAccounting` |
| `startup` | nested directories with three files, or nested and neighbouring ones with six, two table files, a limit of four, two attempts, three DAOs | `TypeOK`, `ListingBounded`, `DirectoriesClosed`, `SchemaComplete`, `RefsMirrored`, `RowsInFile` |
| `json` | first files of up to two lines, two rows in memory, one line converted in memory and more through a file, files that cannot be opened and writes that fail | `TypeOK`, `LoadedIsOneSave`, `Durable` |
| `conf_manager` | two threads, two tables, all failures, refreshes and clears only while no one else is in a call | `TypeOK`, `Aligned`, `HandleSound`, `Refreshed` |
| `conf_expired` | the same, only connections fail | finds `ExpiredOnly` violated |
| `conf_race` | no failures, refreshes at any time | finds `FoundByName` violated |

Why the bounds are enough. The store's interesting cases need a row with two references
(two foreign keys), a referent that changes (two nodes), two rows that share a list (two
links), keys that resolve and do not (two keys and the empty one), rows of files and added
ones (the choice of `base` is free), a table that is malformed (every table may be), and
loading in two stages (two tables). The number of operations is not bounded: the state
space is finite because rows are. In `row_index` the longest row's last column starts at
offset 6 of 7, so that offsets reach their limit, rows of one file share a key and a
reverse list, and a file may end in a row with a column too many. In the save, one key
makes added rows collide with stored ones, two rows of table 0 may be a file's and an added
one or two added ones, and table 1 between 0 and 2, without data, empty in the database and
with at most one added row (`TableOneSmall`), exercises the tables skipped; `MaxRows` bounds
the rows. In the allocator four blocks fill a chunk to
its last byte, overflow it by one alignment, and need two further chunks or big ones;
`MaxBlocks`, `MaxMarks` and `MaxChunk` are the bounds. At startup one tree, with a
directory that cannot be opened, stays below the limit of four files; the other has six, in
nested and in neighbouring directories, and meets it at each depth, in every order of
`readdir`. The configurations have tables in and out of the order of their ids, a reference
beyond the array and a file that cannot be read; `MaxAttempts` allows one retry. In `json`
files of one line and of two lie on both sides of `MemoryRows`, and two rows in memory
(`MaxRows`) let a file grow, shrink and be cut between rows. In the configuration manager two threads contend for the lock with
the same and with different tables; up to five entries (`MaxTables`) and two pending
replaced ones (`MaxOld`) give two refreshes of a table after a failed one. `Quiet` is all
three calls there, and in `conf_race` the two clears, so that only refreshes race.

Deadlock is checked in every run except `startup`, which ends: the process has loaded its
data, or used up its attempts. Symmetry is used for interchangeable keys, flags, table names and
threads, in runs of invariants and action properties; the run with liveness has none.

Fairness. `save` assumes weak fairness of `SaveStep` alone: `save()` is a loop in its
caller's thread, and a thread that can run goes on. Nothing is assumed of the client, and a
crash at any time also ends the save. The other runs assume none: what they check is safety.

### What the violations show

* `reference_kept`: `src/README.md:103` says that a row's reverse index is maintained.
  `set_column_data` of one foreign key removes *all* entries of the row from the list of
  the row it referred to (`row_index.cpp:406-428`), so a second reference from another
  column to the same row is lost, and that row can be deleted.
* `deleted_unreferenced`: `row_index.h:227` says that a row with a reverse index is not
  deleted. A deleted row stays in the hash index, and a foreign key can be set to its key.
* `conf_expired`: `conf_manager.h:240` says that `clear` releases expired tables.
  `update_table` lists a table as replaced before it loads the new one
  (`conf_manager.cpp:456`), and when the connection fails, `clear` empties the table that
  is still found by its name.
* `conf_race`: `conf_manager.cpp:400` says that a loaded table is returned. Without the
  lock in `update_table`, a name can stand at an index before its table does, and another
  thread's look-up returns that index.

`Aligned`, `HandleSound` and `Refreshed` say what the configuration manager does keep
where its clients observe `Quiet`. After a failed query columns are misaligned for good and
a table without rows is returned as loaded: the conjuncts of `Aligned` and `HandleSound`
about columns and rows hold until then (`~failed`), those about names and indexes always.
`Refreshed` as a whole holds until then. A refresh whose query failed leaves its name at the
entry it added (`conf_manager.cpp:289`, `:461-465`); the next one finds the old entry first
and, when it has succeeded, takes the name from that one only (`:464`), so that the name then
leads to the entry of the failed refresh, which has no rows. The model has these steps, and
TLC finds `Refreshed` violated within a few of them when the guard `~failed` is left out.

`RevSound`, `RevLive` and `NormalProtected` are what does hold of the reverse index in
spite of the first two: entries are never wrong, only missing; deleted rows never block;
and rows no one has touched are protected.

Some of the passing properties have a condition, and the condition says what the code
leaves to its users: `RowsInFile` holds with one DAO and files in the order of their table
ids; `SchemaComplete` for the first call of `init` below the limit; `Durable` as long as no
process dies in `save`, ends a save of which a write failed or saves after its load failed;
`LoadedIsOneSave` unless a write of the last save failed; `SaveIsAtomic` speaks of one step
only where there is a transaction; `NoOverlap` leaves out blocks of chunks that could not
be had; `ImplementsStore` is for rows whose columns start at 16-bit offsets.

## 4. The proofs

TLAPS checks, for every schema, every set of rows (a finite one where files are walked
byte by byte) and values, and every sequence of operations:

* `RowStoreProof`: `TypeCorrect` (`Spec => []TypeOK`) and `HashCorrect`
  (`Spec => []HashSound`). The hash index is sound because a row's key is set when the row
  has no data and is refused afterwards; the inductive step needs only that a `SetColumn`
  which changes the key column starts from `None`, and that a file's rows are indexed under
  the key they have.
* `RowStoreProof` also has `RevCorrect` (`Spec => []RevSound`). The argument is that the
  hash index only grows (`HashGrows`): the referent that a value had when an entry was made is
  the one that is looked up when it is to be removed. `RevLiveCorrect` follows with the
  default arguments of `init_data` (assumption `DefaultArguments`: both switches on): with
  a later second load rows that were already deleted would be entered. `IndexedCorrect`
  (`Spec => []IndexedOrIncomplete`) needs the growth of the hash index and that operations
  of one row leave the entries of others alone. `NormalProtectedCorrect` assumes in
  addition that one DAO fills all tables before one `init_data` (assumption `OneDao`):
  otherwise a row may be deleted between two loads and be referred to after the second.
* `RowIndexProof`: `TypeCorrect`, `RowInBlockCorrect` and `StoreImplemented`
  (`Spec => ImplementsStore`, the refinement of `RowStore`), for every finite set of rows,
  all values without NUL and newline, and every limit of offsets that `OffsetAssumption`
  says they fit. The invariant `RInv` says what the bytes are: a file has the lines of its
  rows in their order and, of a torn table, a malformed one after them (`FilesInv`); what
  `row_data_` points to begins with the line of some row, with that row's offsets, and the
  rows with bytes are the rows in use that init has come to (`BufInv`). `LineRead` is the
  lemma on reading: from a line, whatever follows it in the file or in memory, `set_offset`
  and `strlen` find its columns and its end, since a value has no NUL and a column's
  offset survives the cast (`StartFits`, `Int16Keeps`). `WalkIs` is the one on loading: the
  walk accepts the line of each row at the place the row has in the file and fails at the
  malformed one alone (`MalformedRead`), so that `init_data` stops at a torn table and has
  read all the rows of the tables it came to (`LoadingIs`). `RoomEnough` compares what
  `set_column_data` counts with what it copies, `RelinkedIs` and `LinkedIs` say that the
  lists change as `RowStore`'s sets do. Every step of `RowIndex` is then the step of
  `RowStore` of the same name.
* `MMAllocatorProof`: `TypeCorrect`, `InBoundsCorrect`, `NoOverlapCorrect`, for every chunk
  size and int width that are multiples of the alignment, and every alignment. The blocks
  of chunks that could not be had are at offsets from NULL and may coincide: they are in
  bounds and accounted for like the others, and `NoOverlap` is about those in memory. It
  is not inductive: the strengthening `Packed` says that the blocks of the current chunk
  end below `offset`, those of earlier chunks are in bounds, and a big chunk holds one
  block. `OnTop` and `Unmoved` are the two ways a step treats the blocks; one lemma per
  operation reduces it to one of them.
  `ZoneCorrect` (`Spec => []ZoneAccounting`) says that what `mm_flag` has for a flag is the
  sum over the blocks handed out under it and the amounts marked for it; its step adds one
  amount to that sum (`TotalNext`) and rests on `IInv` for the types.
* `DaoSaveProof`: `TypeCorrect`, `AgreementCorrect`, `AllSentCorrect` and `SaveAtomic`
  (`Spec => SaveIsAtomic`), for every finite database, every schema and every number of
  rows and failures, of `start_transaction` too: `DaoSave` implements `AtomicSave`. The
  inductive invariant `IInv` says how far the loops have come: `Progress` (each table before
  the place `at` has all its changes in what the connection sees, the table at it those of
  the rows before `at`), `Untouched` (a key whose rows are unchanged has its stored value
  there as in the database), `AtInsert` (between its two statements the loop is at a changed
  row), `AtEnd` (a save that failed nowhere ends past the last table), and, in `TypeOK`, that
  with no transaction open the connection sees the database. `RowAtIs` is the lemma on the
  iterator: it hands out the rows of `mem` in the order of their numbers and ends after the
  last one. A transaction that a failed commit left open, and that the next save goes on
  with, is what makes `Untouched` necessary. With a transaction, a commit that succeeds is
  the abstract `Save`, and no other step changes the database; without one, a statement is
  the abstract `Statement`, and the commit finds its changes made.
* `ConfManagerProof`: `TypeCorrect` for any clients and any `Quiet`, a `clear_all` in the
  middle of a load included, and `AlignedCorrect`, `HandleCorrect` and `RefreshedCorrect`
  for clients that make none of the calls without mutex while another is under way
  (`Quiet = Unlocked`), for any number of threads and tables; `Refreshed` is about the time
  until a query fails. The
  invariant counts the entries of the three arrays while one load is under way (`Single`:
  there is no second one; `Named` and `Columns`: entry by entry), and adds `Unique`: a name
  leads to at most one entry, except during a refresh of its table. `conf_race` shows what
  becomes of the names and tables when refreshes race.
* `StartupProof`: `TypeCorrect`, `ListingCorrect`, `ClosedCorrect`, `SchemaCorrect`,
  `RefsCorrect` and `RowsCorrect`, for every finite
  set of directories, every tree without cycles (`AcyclicAssumption`: `d_type` does not
  follow links), any limit, schema, DAOs and databases. `ListingBounded` compares the list
  with the calls that were under way when the limit was met (`depth`) and those that still
  are: each call that returns into its directory's loop may add one file. It and
  `DirectoriesClosed` are inductive together with the types in `Walk` (`LInv`), which also
  says that the calls descend in the tree, so that no directory is on the stack twice.
  `SchemaCorrect` needs this, and to know which files a first call of `init` has listed
  below the limit: `FirstInv` says that the directories walked so far, those on the stack
  and what these have left make up the tree, so that the list ends as the files of the
  directories that can be reached, in ascending order. `LoadInv` says that each table file
  before the cursor is in the entry of the array that the number of those before it names,
  and that the references are those of the schemas (`RefsCorrect`). The theorems' invariant
  `Startable` is the three together. `RowsCorrect` rests on `Filled`: the first DAO finds no
  path and no row number that a later one would leave stale.
* `JsonDaoProof`: `TypeCorrect`, `OneSaveCorrect` and `DurableCorrect`, for any rows, any way of
  writing and reading them that is stable (`CanonAssumption`: reading what was written a
  second time changes nothing more) and any first file, with files that cannot be opened and writes that fail. The invariant `JInv`
  joins the types with `FileInv` (unless a write of the save failed: during it the file and
  the lines not written yet make up what was gathered; afterwards a file that can be read
  is a prefix of it, and all of it when `complete`) and `OwedInv` (where the rows that
  are owed are in each phase: in the file, in what was gathered, and once loaded also in
  memory, unless a process was `careless`).

The assumptions on constants are named where the constants are declared (`TableAssumption`,
`RowAssumption`, `ForeignAssumption`, `AllocatorAssumption`, `SaveAssumption`,
`DatabaseAssumption`, `ConfAssumption`, `TreeAssumption`, `AcyclicAssumption`,
`SchemaAssumption`, `DaoAssumption`, `PathAssumption`, `CanonAssumption`,
`FileAssumption`, `CharAssumption`, `OffsetAssumption`) and are evaluated by TLC in every
run of those modules.

Induction over data. The library's induction theorems take an operator as a parameter,
which these provers cannot instantiate. `NumberFacts` therefore states induction for sets
(`Induction`: a set of numbers that holds 0 and with each number the next one holds all),
proves from it that a function defined by recursion on numbers exists and is unique
(`Recursion`), and derives what a sum does when one amount is added
(`TotalNext`), that an arrangement of a finite set is a sequence that holds every
member once, in order (`ArrangedIs`), and what the first texts of a sequence joined are
(`JoinedNext`, `JoinedLen`). A recursive function in a model is expanded to its
`CHOOSE`, and `Recursion` says that there is one to choose. The models use `Arrangement`
where a fold, a sort or `SelectSeq` stood in their way.

Only model-checked: `SaveReturns`, a liveness property, which needs fairness and `ENABLED`
and is out of the prover's reach. That what is proved of `RowStore` holds of `RowIndex` under
the refinement mapping follows from `StoreImplemented` and the theorems of `RowStoreProof`,
but is not a theorem of its own: the prover takes no theorem through an instance.

## 5. Not modelled, and the plan

Not modelled, and why:

* `ComLog`: output that nothing in the system reads. That it leaves descriptors open is
  listed as a hazard.
* `Parser`: no source file includes it.
* `RowInstance`, `X_CLASS`, `DataBase`, `Dao`: they forward to the parts above or hold them.
  The stack buffer that `RowInstance::set` gives to `set_hash`, and the buffer of
  `set_reverse_index` whose pointer is kept in the set of incomplete rows, dangle: what a
  look-up then reads is undefined, and a model of it would allow everything.
* `hash_char.h` and `bsl::hashmap`: the map is not in the repository. That a map of an
  empty table is never created, and that `set` keeps the first value of a key, is used as
  stated under `RowStore`.
* `ConfManager`'s lists of configuration and library files: they do not change after
  `init`, and their walk over directories is that of `FileManager`.
* Names, types and sizes in `TableSchema`, the wording of SQL and logs, `mmap` and file
  reading, `MongoDao` (not compiled), the Python generators, the demonstration `main.cpp`.

What would come next: `TableSchema::init`, which takes the numbers, types and key lists of a
table from a configuration node, against the constants that `RowStore` and `RowIndex` take
for a schema.
