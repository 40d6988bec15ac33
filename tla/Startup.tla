------------------------------ MODULE Startup ------------------------------
(***************************************************************************)
(* How a process comes to its data (storage/main.cpp): SchemaManager::init *)
(* reads the schema, the init of one or more SQL DAOs prints the tables of *)
(* a database into files (dao/sqlite_dao.cpp, dao/mysql_dao.cpp,           *)
(* dao/pg_dao.cpp), and init_data maps the files (storage/table_index.cpp, *)
(* storage/table_manager.cpp).                                             *)
(*                                                                         *)
(* The parts meet in two numberings: a DAO names the file of a table, and  *)
(* the TableIndex that gets its path, by the table_id in the schema, and   *)
(* gives the number of rows to the TableIndex at the schema's place in the *)
(* array.  The databases are external: their rows are counted.             *)
(***************************************************************************)
EXTENDS SchemaManager

CONSTANTS
    Dao,       \* the DAO objects
    Kind,      \* Kind[d] is "sqlite", "mysql" or "pg"
    RowCount,  \* the numbers of rows a table of a database may have
    Missing    \* a table that the database does not have

ASSUME DaoAssumption ==
    /\ Kind \in [Dao -> {"sqlite", "mysql", "pg"}]
    /\ RowCount \subseteq Nat /\ Missing \notin RowCount

VARIABLES
    path,     \* the table ids whose TableIndex has a data_path_
    inFile,   \* inFile[t]: the rows in the file of table id t
    rowNum,   \* rowNum[i]: row_num_ of the i-th TableIndex
    inited,   \* the DAOs with is_init_
    mapped,   \* the table ids with has_data_: the rows of their mapping
    beyond    \* rows were read that the file does not have

dvars == <<path, inFile, rowNum, inited, mapped, beyond>>
vars == <<svars, dvars>>

Init ==
    /\ SInit
    /\ path = {} /\ inFile = [t \in Table |-> 0]
    /\ rowNum = [i \in Table |-> 0]
    /\ inited = {}
    /\ mapped = {} /\ beyond = FALSE

-----------------------------------------------------------------------------
(* The DAOs                                                                *)

IdOf(i) == schema[i].id

\* The places of the array a DAO's loop comes to: MySQL's ends at the first table
\* it cannot read, the others go on.
Reached(d, db) ==
    IF Kind[d] # "mysql" THEN Table
    ELSE {i \in Table : \A j \in Table : j < i => db[IdOf(j)] # Missing}

\* row_num_ of the i-th TableIndex after its turn of the loop.
RowNumAfterStale(d, db, i) ==    \* mutant: it is set whatever the query did
    LET read == {j \in Reached(d, db) : j <= i /\ db[IdOf(j)] # Missing} IN
    IF i \in Reached(d, db) /\ read # {} THEN db[IdOf(Max(read))] ELSE rowNum[i]
RowNumAfter(d, db, i) ==
    IF i \in Reached(d, db) /\ db[IdOf(i)] # Missing THEN db[IdOf(i)] ELSE rowNum[i]

\* The part of init after the connection: get_file_name's file is truncated and
\* the path set before the query; the row number only after one that succeeded.
Fill(d, db) ==
    LET ids == {IdOf(i) : i \in Reached(d, db)} IN
    /\ path' = path \union ids
    /\ inFile' = [t \in Table |-> IF t \notin ids THEN inFile[t]
                                  ELSE IF db[t] = Missing THEN 0 ELSE db[t]]
    /\ rowNum' = [i \in Table |-> RowNumAfter(d, db, i)]

\* init of DAO d, whose database is db.  Without a connection SQLite and MySQL do
\* nothing; PostgreSQL goes on, and every query fails.  Later calls do nothing.
DaoInit(d, db, connected) ==
    /\ pc = "ready" /\ ~overrun
    /\ {IdOf(i) : i \in Table} \subseteq Table
    /\ d \notin inited
    /\ inited' = inited \union {d}
    /\ IF connected THEN Fill(d, db)
       ELSE IF Kind[d] = "pg" THEN Fill(d, [t \in Table |-> Missing])
       ELSE UNCHANGED <<path, inFile, rowNum>>
    /\ UNCHANGED <<svars, mapped, beyond>>

-----------------------------------------------------------------------------
(* init_data                                                               *)

\* init_data, with TableIndex::init for the tables it has not mapped yet.  The
\* TableIndex of id t is the one at place t; it walks row_num_ rows.
InitData ==
    /\ pc = "ready" /\ ~overrun
    /\ path \ mapped # {}
    /\ mapped' = path
    /\ beyond' = (beyond \/ \E t \in path \ mapped : rowNum[t] > inFile[t])
    /\ UNCHANGED <<svars, path, inFile, rowNum, inited>>

Next ==
    \/ SNext /\ UNCHANGED dvars
    \/ \E d \in Dao, db \in [Table -> RowCount \union {Missing}], connected \in BOOLEAN :
        DaoInit(d, db, connected)
    \/ InitData

Spec == Init /\ [][Next]_vars

-----------------------------------------------------------------------------
(* What loading rests on                                                   *)

TypeOK ==
    /\ pc \in {"idle", "listing", "listed", "failed", "ready"}
    /\ files \in Seq(File)
    /\ index \in 0 .. Len(files) /\ count \in Nat
    /\ pc # "listing" => stack = <<>>
    /\ pc = "ready" => \A i \in Table : schema[i] \in Schema
    /\ mapped \subseteq path
    /\ \A i \in Table : rowNum[i] \in RowCount \union {0}

\* The file names, in their order, carry the table ids 0, 1, ...
IdsInOrder == \A i \in Table : IdOf(i) = i

\* As long as one DAO has been initialized, and the files of the schema are named
\* in the order of their table ids, init_data finds in every file the rows it walks
\* over: whatever table the database lacks, wherever the loop over the tables ended
\* and whether there was a connection.
RowsInFile ==
    (pc = "ready" /\ ~overrun /\ IdsInOrder /\ Cardinality(inited) = 1) =>
        ~beyond /\ \A t \in path : rowNum[t] = inFile[t]
=============================================================================
