------------------------------ MODULE RowIndex ------------------------------
(***************************************************************************)
(* The store of RowStore down to its bytes: the files a DAO writes, the    *)
(* walk of TableIndex::init over them, the column offsets of 16 bits       *)
(* (RowIndex::set_offset), the block set_column_data copies a row into,    *)
(* and the reverse lists as lists (storage/row_index.cpp,                  *)
(* storage/table_index.cpp).                                               *)
(*                                                                         *)
(* A row is a text of NUL-terminated columns with a newline after the last *)
(* one.  Texts are sequences of bytes, and row_data_ is the bytes from the *)
(* row's place on: nothing is ever written in place.  What the file's rows *)
(* are (rows) is kept for the comparison with RowStore, whose data is what *)
(* these bytes say.                                                        *)
(***************************************************************************)
EXTENDS Arrangement, SequencesExt

CONSTANTS
    TableNum, Row, Home, ColumnNum, Foreign, Keyed, DaoLoads, Modes, Torn,
                 \* as in RowStore; the rows of a table are used in their order
    Value,       \* column values: sequences of characters
    None,        \* a NULL pointer, and what lies outside every text
    OffsetLimit  \* column offsets are less than it, 2^15 in the code

Nul == 0
Newline == 1
Empty == <<>>

Table == 0 .. TableNum - 1
KeyColumn == 0
ColumnsOf(t) == 0 .. ColumnNum[t] - 1

ASSUME TableAssumption ==
    /\ TableNum \in Nat
    /\ ColumnNum \in [Table -> Nat \ {0}]
    /\ Keyed \subseteq Table /\ Torn \subseteq Table
    /\ DaoLoads \subseteq SUBSET Table
    /\ Modes \subseteq BOOLEAN \X BOOLEAN
ASSUME RowAssumption ==
    /\ Row \subseteq Nat /\ IsFiniteSet(Row)
    /\ Home \in [Row -> Table]
ASSUME ForeignAssumption ==
    \A t \in Table : /\ DOMAIN Foreign[t] \subseteq ColumnsOf(t) \ {KeyColumn}
                     /\ \A c \in DOMAIN Foreign[t] : Foreign[t][c] \in Table

\* Characters are numbers.
ASSUME CharAssumption ==
    /\ Empty \in Value /\ Value \subseteq Seq(Nat \ {Nul, Newline})
    /\ None \notin Row \union Seq(Nat)
    /\ \A t \in Table : None \notin [ColumnsOf(t) -> Value]

\* The longest row's last column starts at an offset that fits.
ASSUME OffsetAssumption ==
    /\ OffsetLimit \in Nat \ {0}
    /\ \A t \in Table, v \in Value :
        (ColumnNum[t] - 1) * (Len(v) + 1) < OffsetLimit

VARIABLES
    path, hasData, hasRev, stuck, base, added, stat, hash, incomplete,
             \* as in RowStore
    rows,    \* rows[r]: what the database has for the row r of a file
    file,    \* file[t]: the bytes of the file of table t
    buf,     \* buf[r]: row_data_, None or the bytes from there on
    offset,  \* offset[r]: column_array_
    block,   \* block[r]: the size of the block the row was last copied into
    list     \* list[r]: reverse_index_list_, <<column_id, row_index>> entries

vars == <<path, hasData, hasRev, stuck, base, added, stat, hash, incomplete,
          rows, file, buf, offset, block, list>>
bytes == <<buf, offset, block>>
loads == <<hasData, hasRev, stuck>>

RowsOf(t) == {r \in Row : Home[r] = t}
ForeignKeys(r) == DOMAIN Foreign[Home[r]]
Live == {r \in base \union added : Home[r] \in hasData \union stuck}

Init ==
    /\ path = {} /\ hasData = {} /\ hasRev = {} /\ stuck = {}
    /\ base = {} /\ added = {}
    /\ stat = [r \in Row |-> "NORMAL_ROW"]
    /\ hash = [t \in Table |-> [k \in Value |-> None]]
    /\ incomplete = {}
    /\ rows = [r \in Row |-> None]
    /\ file = [t \in Table |-> <<>>]
    /\ buf = [r \in Row |-> None]
    /\ offset = [r \in Row |-> <<>>]
    /\ block = [r \in Row |-> 0]
    /\ list = [r \in Row |-> <<>>]

-----------------------------------------------------------------------------
(* Texts                                                                   *)

\* strlen(text + at)
StrLen(text, at) ==
    (CHOOSE i \in at .. Len(text) :
        /\ i = Len(text) \/ text[i + 1] = Nul
        /\ \A j \in at .. i - 1 : text[j + 1] # Nul) - at

\* The string at an offset; what lies before the text is not known.
CStr(text, at) ==
    IF at \in 0 .. Len(text) THEN SubSeq(text, at + 1, at + StrLen(text, at)) ELSE None

\* The text of a row of n columns.
Line(n, row) ==
    Joined(n, [i \in 1 .. n |-> row[i - 1] \o <<Nul>>]) \o <<Newline>>

\* The cast of an offset to int16_t.
Signed(n, limit) == ((n + limit) % (2 * limit)) - limit
Int16Narrow(n) == Signed(n, OffsetLimit \div 2)    \* mutant
Int16(n) == Signed(n, OffsetLimit)

\* cur_offset of set_offset after each column of a row of table t.
Ends(t, text) ==
    LET end[i \in ColumnsOf(t)] ==
            LET at == IF i = 0 THEN 0 ELSE end[i - 1] IN at + StrLen(text, at) + 1
    IN end
LastEnd(t, text) == Ends(t, text)[ColumnNum[t] - 1]

\* set_offset: column_array_, whether the row ends after its last column, and
\* row_end_offset.
Offsets(t, text) == [i \in 1 .. ColumnNum[t] - 1 |-> Int16(Ends(t, text)[i - 1])]
EndsInTime(t, text) ==
    /\ LastEnd(t, text) < Len(text)
    /\ text[LastEnd(t, text) + 1] = Newline
RowEnd(t, text) == LastEnd(t, text) + 1

\* get_column_offset, and the column there.  A new row reads from tmp_row, zeros.
ColumnAt(r, c) == IF c = KeyColumn THEN 0 ELSE offset[r][c]
Column(r, c) == IF buf[r] = None THEN Empty ELSE CStr(buf[r], ColumnAt(r, c))

-----------------------------------------------------------------------------
(* Loading                                                                 *)

\* A row with a column too many, as a table that was changed gives them.
Malformed(t) == Line(ColumnNum[t] + 1, [c \in 0 .. ColumnNum[t] |-> Empty])

\* The rows a DAO finds in its tables are the first ones of each.
FirstRows(S) ==
    {L \in SUBSET {r \in Row : Home[r] \in S} :
        \A r \in L : \A x \in RowsOf(Home[r]) : x < r => x \in L}

\* What it prints for rows R of table t.
Printed(t, R, content) ==
    LET order == Ascending(R) IN
    Joined(Cardinality(R), [i \in DOMAIN order |-> Line(ColumnNum[t], content[order[i]])])

\* A DAO's init: it prints the rows of its tables into their files.  The last
\* one may not have the columns of the schema.
DaoInit(S) ==
    /\ S \intersect path = {}
    /\ path' = path \union S
    /\ \E loaded \in FirstRows(S), torn \in SUBSET (S \intersect Torn) :
       \E content \in [loaded -> UNION {[ColumnsOf(t) -> Value] : t \in S}] :
        /\ \A r \in loaded : DOMAIN content[r] = ColumnsOf(Home[r])
        /\ base' = base \union loaded
        /\ rows' = [r \in Row |-> IF r \in loaded THEN content[r] ELSE rows[r]]
        /\ file' = [t \in Table |->
            IF t \notin S THEN file[t]
            ELSE Printed(t, RowsOf(t) \intersect loaded, content)
                 \o (IF t \in torn THEN Malformed(t) ELSE <<>>)]
    /\ UNCHANGED <<loads, added, stat, hash, incomplete, bytes, list>>

\* The file of table t from an offset on.
From(t, at) == SubSeq(file[t], at + 1, Len(file[t]))

\* cur_offset of set_row_offset_and_hash_index: where the rows of table t start,
\* each at the end of the one before, and where a malformed one would.
Starts(t) ==
    LET start[i \in 0 .. Cardinality(RowsOf(t) \intersect base)] ==
            IF i = 0 THEN 0 ELSE start[i - 1] + RowEnd(t, From(t, start[i - 1]))
    IN  start

\* The place of a row of a file in it, from 0, and its text.
Place(r) == Cardinality({x \in RowsOf(Home[r]) \intersect base : x < r})
TextOf(r) == From(Home[r], Starts(Home[r])[Place(r)])

\* set_offset accepts the row at a place, if there is one.
Accepted(t, i) ==
    LET text == From(t, Starts(t)[i]) IN text # <<>> => EndsInTime(t, text)
Malforms(t) == \E i \in DOMAIN Starts(t) : ~Accepted(t, i)

\* The loop of init_data over the tables: it ends at the first that fails, and has
\* come to the rows before the malformed one.
Stop ==
    LET failing == {t \in path \ hasData : Malforms(t)} IN
    IF failing = {} THEN TableNum ELSE Min(failing)
Reached == {t \in path \ hasData : t <= Stop}
Read == {r \in base : Home[r] \in Reached /\ \A i \in 0 .. Place(r) : Accepted(Home[r], i)}

\* hash_index_.set: a key that is there keeps its row, so that of the rows of a
\* file with a key the first is found.
HashSet(index, k, r) == IF index[k] = None THEN [index EXCEPT ![k] = r] ELSE index
First(S) == IF S = {} THEN None ELSE Min(S)
IndexRows(t) ==
    [k \in Value |->
        IF hash[t][k] # None THEN hash[t][k]
        ELSE First({r \in Read : Home[r] = t /\ CStr(TextOf(r), 0) = k})]
IndexAfter(hashOn) ==
    [t \in Table |-> IF hashOn /\ t \in Reached \intersect Keyed
                     THEN IndexRows(t) ELSE hash[t]]

\* The references that set_reverse_index comes to in the tables T, and its order.
References(T) ==
    {e \in UNION {ForeignKeys(r) \X {r} : r \in base} : Home[e[2]] \in T}
WalkOrder(T) ==
    {p \in References(T) \X References(T) :
        LET c == p[1][1]  r == p[1][2]  d == p[2][1]  x == p[2][2] IN
        Home[r] < Home[x] \/ (Home[r] = Home[x] /\ (r < x \/ (r = x /\ c < d)))}

\* The row that a reference leads to.
Target(e) == hash[Foreign[Home[e[2]]][e[1]]][Column(e[2], e[1])]

\* TableManager::init_data, not called again after it failed.  The malformed row it
\* failed at, which set_offset gave row_data_ and offsets, is left out.  set_reverse_index
\* does a push_back at the row a reference leads to, or gives the key of its own to
\* insert_incom_key.
InitData(hashOn, reverseOn) ==
    LET T == hasData' \ hasRev IN
    /\ stuck = {}
    /\ hasData' = hasData \union (Reached \ {Stop})
    /\ stuck' = {Stop} \intersect Table
    /\ hash' = IndexAfter(hashOn)
    /\ buf' = [r \in Row |-> IF r \in Read THEN TextOf(r) ELSE buf[r]]
    /\ offset' = [r \in Row |->
                    IF r \in Read THEN Offsets(Home[r], TextOf(r)) ELSE offset[r]]
    /\ IF stuck' = {} /\ hashOn /\ reverseOn
       THEN /\ hasRev' = hasData'
            /\ list' = [n \in Row |->
                list[n] \o Arranged({e \in References(T) : Target(e)' = n}, WalkOrder(T))]
            /\ incomplete' = incomplete \union
                {<<Home[e[2]], Column(e[2], KeyColumn)'>> :
                    e \in {x \in References(T) : Target(x)' = None}}
       ELSE UNCHANGED <<hasRev, list, incomplete>>
    /\ UNCHANGED <<path, base, added, stat, rows, file, block>>

-----------------------------------------------------------------------------
(* The client's operations                                                 *)

\* TableIndex::add
Add(t) ==
    /\ t \in hasData \union stuck
    /\ RowsOf(t) \ (base \union added) # {}
    /\ LET r == Min(RowsOf(t) \ (base \union added)) IN
        /\ added' = added \union {r}
        /\ stat' = [stat EXCEPT ![r] = "UPDATE_ROW"]
    /\ UNCHANGED <<path, loads, base, hash, incomplete, rows, file, bytes, list>>

\* len: the key, the columns before and after the one set, its value, each with
\* its NUL, and the newline.  A key that is set is counted with the empty old one.
OthersLen(r, c) ==
    Total(ColumnNum[Home[r]],
          [i \in 1 .. ColumnNum[Home[r]] |->
              IF i - 1 = c /\ c # KeyColumn THEN 0 ELSE Len(Column(r, i - 1)) + 1])
RoomBare(r, c, v) == OthersLen(r, c) + Len(v) + 1    \* mutant: without the newline
Room(r, c, v) == OthersLen(r, c) + Len(v) + 1 + 1

\* The bytes that are copied into the block.
Copied(r, c, v) ==
    Line(ColumnNum[Home[r]],
         [d \in ColumnsOf(Home[r]) |-> IF d = c THEN v ELSE Column(r, d)])

\* del_reverse_index: the entries at the head, then those between others.
DelReverseHead(entries, r) ==    \* mutant: only at the head
    IF entries # <<>> /\ Head(entries)[2] = r THEN Tail(entries) ELSE entries
DelReverse(entries, r) == Picked(entries, {i \in DOMAIN entries : entries[i][2] # r})

\* RowIndex::set_column_data
SetColumn(r, c, v) ==
    /\ r \in Live
    /\ c \in ColumnsOf(Home[r])
    /\ ~(c = KeyColumn /\ buf[r] # None)
    /\ hash' = IF c = KeyColumn
               THEN [hash EXCEPT ![Home[r]] = HashSet(@, v, r)]
               ELSE hash
    /\ block' = [block EXCEPT ![r] = Room(r, c, v)]
    /\ LET text == Copied(r, c, v) IN
        /\ buf' = [buf EXCEPT ![r] = text]
        /\ offset' = [offset EXCEPT ![r] = Offsets(Home[r], text)]
    /\ list' = IF c \notin ForeignKeys(r) THEN list
               ELSE [n \in Row |->
                   LET kept == IF n = Target(<<c, r>>) THEN DelReverse(list[n], r)
                               ELSE list[n]
                   IN  IF n = hash[Foreign[Home[r]][c]][v]
                       THEN Append(kept, <<c, r>>) ELSE kept]
    /\ stat' = [stat EXCEPT ![r] = "UPDATE_ROW"]
    /\ UNCHANGED <<path, loads, base, added, incomplete, rows, file>>

\* RowIndex::del, of a row with data or without foreign keys.
Del(r) ==
    /\ r \in Live
    /\ list[r] = <<>>
    /\ buf[r] # None \/ ForeignKeys(r) = {}
    /\ list' = [n \in Row |-> IF \E c \in ForeignKeys(r) : Target(<<c, r>>) = n
                               THEN DelReverse(list[n], r) ELSE list[n]]
    /\ stat' = [stat EXCEPT ![r] = "DELETE_ROW"]
    /\ UNCHANGED <<path, loads, base, added, hash, incomplete, rows, file, bytes>>

Next ==
    \/ \E S \in DaoLoads : DaoInit(S)
    \/ \E m \in Modes : InitData(m[1], m[2])
    \/ \E t \in Table : Add(t)
    \/ \E r \in Row, v \in Value : \E c \in ColumnsOf(Home[r]) : SetColumn(r, c, v)
    \/ \E r \in Row : Del(r)

Spec == Init /\ [][Next]_vars

-----------------------------------------------------------------------------
(* What the bytes promise                                                  *)

TypeOK ==
    /\ stuck \subseteq path \ hasData /\ hasRev \subseteq hasData /\ hasData \subseteq path
    /\ \A r \in Row : rows[r] # None <=> r \in base
    /\ \A r \in base : Home[r] \in hasData => buf[r] # None
    /\ \A r \in Row : buf[r] # None =>
        \A c \in ColumnsOf(Home[r]) : Column(r, c) \in Value
    /\ \A r \in Row : \A i \in DOMAIN list[r] :
        list[r][i] \in ForeignKeys(list[r][i][2]) \X (base \union added)

\* The columns of row r as RowStore sees them: those its bytes say, once init has
\* come to it, and those the DAO printed before.
Data == [r \in Row |->
    IF buf[r] = None THEN rows[r] ELSE [c \in ColumnsOf(Home[r]) |-> Column(r, c)]]

Store == INSTANCE RowStore WITH data <- Data, rev <- [r \in Row |-> ToSet(list[r])]

\* The bytes, offsets and lists implement the store of columns and sets: a row
\* read at its 16 bit offsets has the columns the DAO printed or the client set,
\* the walk over a file finds exactly its rows, and every operation does to the
\* lists what RowStore says it does to the sets of references.
ImplementsStore == Store!Spec

\* What set_column_data copies stays in the block it asked the allocator for, and
\* set_offset finds the row's end where the copying stopped ("set_column_data
\* error" is never logged).
RowInBlock ==
    \A r \in Row : block[r] > 0 =>
        /\ Len(buf[r]) <= block[r]
        /\ RowEnd(Home[r], buf[r]) = Len(buf[r])
=============================================================================
