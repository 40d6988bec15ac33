------------------------------ MODULE RowStore ------------------------------
(***************************************************************************)
(* The in-memory relational store: TableManager, its TableIndex array and  *)
(* the RowIndex objects of every table (storage/table_manager.cpp,         *)
(* storage/table_index.cpp, storage/row_index.cpp).                        *)
(*                                                                         *)
(* A DAO writes the file of some tables (DaoInit), init_data maps the      *)
(* files, indexes their rows by key and builds the reverse index           *)
(* (InitData), and a client then adds, changes and deletes rows (Add,      *)
(* SetColumn, Del).  A row's bytes are abstracted to a function from its   *)
(* columns to values; a reverse list to the set of its <<column, row>>     *)
(* entries, since every operation on it treats equal entries alike.        *)
(***************************************************************************)
EXTENDS Integers

CONSTANTS
    TableNum,    \* schema_manager->get_table_num(): tables are 0 .. TableNum-1
    Row,         \* RowIndex objects: those of the files, in their order, and those
                 \* add() makes
    Home,        \* Home[r]: the table whose row r is (table_index_)
    Value,       \* column values
    Empty,       \* the value of a NULL column, the empty string
    None,        \* a NULL pointer
    ColumnNum,   \* ColumnNum[t]: number of columns of table t; column 0 is the key
    Foreign,     \* Foreign[t]: from the foreign key columns of t to their tables
    Keyed,       \* the tables whose schema has a row key (has_row_key)
    DaoLoads,    \* the sets of tables that the init of one DAO fills
    Modes,       \* the <<hash_index_on, reverse_index_on>> init_data is called with
    Torn         \* the tables whose file may hold a malformed row

Table == 0 .. TableNum - 1
KeyColumn == 0
ColumnsOf(t) == 0 .. ColumnNum[t] - 1
Column == UNION {ColumnsOf(t) : t \in Table}

ASSUME TableAssumption ==
    /\ TableNum \in Nat
    /\ ColumnNum \in [Table -> Nat \ {0}]
    /\ Keyed \subseteq Table /\ Torn \subseteq Table
    /\ DaoLoads \subseteq SUBSET Table
    /\ Modes \subseteq BOOLEAN \X BOOLEAN
ASSUME RowAssumption ==
    /\ Row \subseteq Nat /\ Home \in [Row -> Table]
    /\ Empty \in Value
    /\ None \notin Row
    /\ \A t \in Table : None \notin [ColumnsOf(t) -> Value]
ASSUME ForeignAssumption ==
    \A t \in Table : /\ DOMAIN Foreign[t] \subseteq ColumnsOf(t) \ {KeyColumn}
                     /\ \A c \in DOMAIN Foreign[t] : Foreign[t][c] \in Table

VARIABLES
    path,        \* tables whose data_path_ is set
    hasData,     \* tables with has_data_
    hasRev,      \* tables with has_reverse_index_
    stuck,       \* the table at which init_data failed, if it did
    base,        \* rows of the files
    added,       \* rows of the insert_deque_ of their table
    data,        \* row_data_: None or the columns' values
    stat,        \* row_stat_
    hash,        \* hash_index_ of every table
    rev,         \* reverse_index_list_ of every row
    incomplete   \* the <<table, key>> given to insert_incom_key

vars == <<path, hasData, hasRev, stuck, base, added, data, stat, hash, rev,
          incomplete>>
files == <<path, base>>
loads == <<hasData, hasRev, stuck>>

RowStat == {"NORMAL_ROW", "UPDATE_ROW", "DELETE_ROW"}
Contents(t) == [ColumnsOf(t) -> Value]
ForeignKeys(r) == DOMAIN Foreign[Home[r]]
RowsOf(t) == {r \in base : Home[r] = t}

\* The rows a client can reach: those of the tables init has been run on.
Live == {r \in base \union added : Home[r] \in hasData \union stuck}

TypeOK ==
    /\ path \subseteq Table
    /\ hasData \subseteq path /\ hasRev \subseteq hasData
    /\ stuck \subseteq path \ hasData
    /\ base \subseteq Row
    /\ added \subseteq Row \ base
    /\ DOMAIN data = Row
    /\ \A r \in Row : data[r] \in Contents(Home[r]) \union {None}
    /\ \A r \in base : data[r] # None
    /\ \A r \in Row \ (base \union added) : data[r] = None
    /\ stat \in [Row -> RowStat]
    /\ hash \in [Table -> [Value -> Row \union {None}]]
    /\ rev \in [Row -> SUBSET (Column \X Row)]
    /\ incomplete \subseteq Table \X Value

Init ==
    /\ path = {} /\ hasData = {} /\ hasRev = {} /\ stuck = {}
    /\ base = {} /\ added = {}
    /\ data = [r \in Row |-> None]
    /\ stat = [r \in Row |-> "NORMAL_ROW"]
    /\ hash = [t \in Table |-> [k \in Value |-> None]]
    /\ rev = [r \in Row |-> {}]
    /\ incomplete = {}

-----------------------------------------------------------------------------
(* The indexes                                                             *)

\* get_row_index(key)
Lookup(t, k) == hash[t][k]

\* The set of bsl::hashmap, whose flag is left at its default: a key that is
\* there already keeps its value.
HashSetOverwriting(index, k, r) == [index EXCEPT ![k] = r]    \* mutant
HashSet(index, k, r) == IF index[k] = None THEN [index EXCEPT ![k] = r] ELSE index

\* The row a file's rows of one key leave in the hash: the first of them.
First(S) == IF S = {} THEN None ELSE CHOOSE r \in S : \A x \in S : r <= x

\* set_row_offset_and_hash_index, for the hash index of table t.
IndexRows(t) ==
    [k \in Value |->
        IF hash[t][k] # None THEN hash[t][k]
        ELSE First({r \in RowsOf(t) : data[r][KeyColumn] = k})]

\* The row that column c of r, were its value v, refers to.
Referent(r, c, v) == Lookup(Foreign[Home[r]][c], v)

\* del_reverse_index: every entry of the row goes, whatever its column.
DelReverseNothing(list, r) == list    \* mutant
DelReverseAll(list, r) == {}          \* mutant
DelReverse(list, r) == {e \in list : e[2] # r}

\* The entries that set_reverse_index gives to the row n while it walks the
\* tables T, and the keys for which it finds no row, with index for the hash.
EntriesFor(n, T, index) ==
    {e \in Column \X base :
        LET r == e[2] IN
        /\ Home[r] \in T /\ e[1] \in ForeignKeys(r)
        /\ index[Foreign[Home[r]][e[1]]][data[r][e[1]]] = n}
UnresolvedAllKeys(T, index) ==    \* mutant: a row with one good key is complete
    {<<Home[r], data[r][KeyColumn]>> :
        r \in {x \in base : /\ Home[x] \in T
                            /\ \A c \in ForeignKeys(x) :
                                index[Foreign[Home[x]][c]][data[x][c]] = None}}
Unresolved(T, index) ==
    {<<Home[r], data[r][KeyColumn]>> :
        r \in {x \in base : /\ Home[x] \in T
                            /\ \E c \in ForeignKeys(x) :
                                index[Foreign[Home[x]][c]][data[x][c]] = None}}

-----------------------------------------------------------------------------
(* Loading                                                                 *)

\* A DAO's init (outside storage/): it writes the rows of a set of tables into
\* files and sets their data path and row number.  A DAO does so once, before
\* the tables have data.
DaoInit(S) ==
    /\ S \intersect path = {}
    /\ path' = path \union S
    /\ \E rows \in SUBSET {r \in Row \ (base \union added) : Home[r] \in S} :
       \E contents \in [rows -> UNION {Contents(t) : t \in S}] :
        /\ \A r \in rows : contents[r] \in Contents(Home[r])
        /\ base' = base \union rows
        /\ data' = [r \in Row |-> IF r \in rows THEN contents[r] ELSE data[r]]
    /\ UNCHANGED <<loads, added, stat, hash, rev, incomplete>>

\* The tables that init_data's loop comes to, and those that have data after it:
\* the loop takes the tables in order and ends at the one that fails.
Reached(stop) == {t \in path \ hasData : t <= stop}
LoadedWithFailing(stop) == hasData \union Reached(stop)    \* mutant
Loaded(stop) == hasData \union (Reached(stop) \ {stop})

\* The hash indexes after the loop: those of the tables it came to are filled,
\* the failing one's with the rows before the malformed one.
IndexAfter(hashOn, stop) ==
    [t \in Table |-> IF hashOn /\ t \in Reached(stop) \intersect Keyed
                     THEN IndexRows(t) ELSE hash[t]]

\* TableManager::init_data.  stop is the table whose init fails on a malformed
\* row, TableNum when there is none; the rows before the malformed one are
\* those base has of it.  The malformed row, of which set_offset has already set
\* row_data_ and column_array_, is left out: a client does not use the row by number.
\* Nor does a client call init_data again after it failed.
InitData(hashOn, reverseOn, stop) ==
    LET unlinked == Loaded(stop) \ hasRev  IN
    /\ stuck = {}
    /\ stop \in ((path \ hasData) \intersect Torn) \union {TableNum}
    /\ hasData' = Loaded(stop)
    /\ hash' = IndexAfter(hashOn, stop)
    /\ stuck' = {stop} \intersect Table
    /\ IF stop = TableNum /\ hashOn /\ reverseOn
       THEN /\ hasRev' = Loaded(stop)
            /\ rev' = [n \in Row |-> rev[n] \union EntriesFor(n, unlinked, hash')]
            /\ incomplete' = incomplete \union Unresolved(unlinked, hash')
       ELSE UNCHANGED <<hasRev, rev, incomplete>>
    /\ UNCHANGED <<files, added, data, stat>>

-----------------------------------------------------------------------------
(* The client's operations                                                 *)

\* TableIndex::add
Add(t) ==
    /\ t \in hasData \union stuck
    /\ \E r \in Row \ (base \union added) :
        /\ Home[r] = t
        /\ added' = added \union {r}
        /\ stat' = [stat EXCEPT ![r] = "UPDATE_ROW"]
    /\ UNCHANGED <<files, loads, data, hash, rev, incomplete>>

\* The contents of a row after column c is set to v.  Before its first change a
\* new row reads as tmp_row, a buffer of zeros, through its column_array_, which
\* lies in a fresh chunk of 64M and so is zero too: every column is empty.
Written(r, c, v) ==
    IF data[r] = None
    THEN [d \in ColumnsOf(Home[r]) |-> IF d = c THEN v ELSE Empty]
    ELSE [data[r] EXCEPT ![c] = v]

OldValue(r, c) == IF data[r] = None THEN Empty ELSE data[r][c]

\* The key of a row that has data cannot be set: set_column_data returns -1.
SettableAlways(r, c) == TRUE    \* mutant
Settable(r, c) == ~(c = KeyColumn /\ data[r] # None)

\* RowIndex::set_column_data
SetColumn(r, c, v) ==
    /\ r \in Live
    /\ c \in ColumnsOf(Home[r])
    /\ Settable(r, c)
    /\ hash' = IF c = KeyColumn
               THEN [hash EXCEPT ![Home[r]] = HashSet(@, v, r)]
               ELSE hash
    /\ rev' = IF c \in ForeignKeys(r)
              THEN [n \in Row |->
                      LET kept == IF n = Referent(r, c, OldValue(r, c))
                                  THEN DelReverse(rev[n], r) ELSE rev[n]
                      IN  kept \union {e \in {<<c, r>>} : n = Referent(r, c, v)}]
              ELSE rev
    /\ data' = [data EXCEPT ![r] = Written(r, c, v)]
    /\ stat' = [stat EXCEPT ![r] = "UPDATE_ROW"]
    /\ UNCHANGED <<files, loads, added, incomplete>>

ReferencedNever(r) == FALSE    \* mutant
Referenced(r) == rev[r] # {}

\* RowIndex::del.  It returns false and changes nothing while the row has a
\* reverse list.  A row without data must have no foreign key: their values
\* would be read through the NULL row_data_.
Del(r) ==
    /\ r \in Live
    /\ ~Referenced(r)
    /\ data[r] # None \/ ForeignKeys(r) = {}
    /\ rev' = [n \in Row |->
                IF \E c \in ForeignKeys(r) : n = Referent(r, c, data[r][c])
                THEN DelReverse(rev[n], r) ELSE rev[n]]
    /\ stat' = [stat EXCEPT ![r] = "DELETE_ROW"]
    /\ UNCHANGED <<files, loads, added, data, hash, incomplete>>

Next ==
    \/ \E S \in DaoLoads : DaoInit(S)
    \/ \E m \in Modes, stop \in 0 .. TableNum : InitData(m[1], m[2], stop)
    \/ \E t \in Table : Add(t)
    \/ \E r \in Row, c \in Column, v \in Value : SetColumn(r, c, v)
    \/ \E r \in Row : Del(r)

Spec == Init /\ [][Next]_vars

-----------------------------------------------------------------------------
(* What the store promises                                                 *)

\* The row that a table's hash index gives for a key is a row of that table and
\* has that key: no sequence of loads and set_column_data calls leaves an entry
\* of table_index.hash_index_ pointing at a row with another key.
HashSound ==
    \A t \in Table, k \in Value :
        hash[t][k] # None =>
            LET r == hash[t][k] IN
            /\ Home[r] = t
            /\ data[r] # None
            /\ data[r][KeyColumn] = k

\* Every entry of a reverse list is a reference that holds: the row it names
\* has, in the column it names, a foreign key the hash index resolves to the
\* list's owner.  set_column_data and del find the entry to drop by looking up
\* the row's current value, so this is what their bookkeeping rests on.
RevSound ==
    \A n \in Row : \A e \in rev[n] :
        /\ e[2] \in base \union added
        /\ data[e[2]] # None
        /\ e[1] \in ForeignKeys(e[2])
        /\ Referent(e[2], e[1], data[e[2]][e[1]]) = n

\* A deleted row is in no reverse list: del leaves the lists of all the rows the
\* deleted one refers to, however its foreign keys were changed before, so it
\* never keeps another row from being deleted.
RevLive ==
    \A n \in Row : \A e \in rev[n] : stat[e[2]] # "DELETE_ROW"

\* While a row of a file is unchanged, each of its foreign keys is accounted
\* for once set_reverse_index has run on its table: the column's reference is in
\* some reverse list, or the row's key went to insert_incom_key.
IndexedOrIncomplete ==
    \A r \in base :
        (Home[r] \in hasRev /\ stat[r] = "NORMAL_ROW") =>
            \A c \in ForeignKeys(r) :
                \/ \E n \in Row : <<c, r>> \in rev[n]
                \/ <<Home[r], data[r][KeyColumn]>> \in incomplete

\* A row that an unchanged row of a file refers to through the reverse index is
\* not deleted, whatever is done to other rows meanwhile.
NormalProtected ==
    \A n \in Row : \A e \in rev[n] :
        stat[e[2]] = "NORMAL_ROW" => stat[n] # "DELETE_ROW"

\* row_index.h:227 ("deletes itself; with a reverse index it is not deleted"): a
\* row that other rows refer to is not a deleted one.
DeletedUnreferenced ==
    \A n \in Row : stat[n] = "DELETE_ROW" => rev[n] = {}

\* README.md:103 ("maintains the reverse index of each row of data"): a step that
\* leaves a foreign key of a row as it is, and does not delete the row, leaves
\* that key's entry in the reverse index.
ReferenceKept ==
    [][\A n \in Row : \A e \in rev[n] :
        (/\ data'[e[2]][e[1]] = data[e[2]][e[1]]
         /\ stat'[e[2]] # "DELETE_ROW") => e \in rev'[n]]_vars
=============================================================================
