--------------------------- MODULE RowStoreProof ---------------------------
(* Proofs about RowStore, for every number of tables, every schema and every *)
(* set of rows and values.                                                   *)
EXTENDS RowStore, NumberFacts

-----------------------------------------------------------------------------
(* The operators                                                           *)

\* Column numbers of a table are columns.
LEMMA ColumnsOfTable ==
    ASSUME NEW t \in Table
    PROVE  ColumnsOf(t) \subseteq Column
BY DEF Column

\* The foreign key columns of a row are columns of its table other than the key,
\* and each refers to a table.
LEMMA ForeignKeyColumns ==
    ASSUME NEW r \in Row, NEW c \in ForeignKeys(r)
    PROVE  /\ c \in ColumnsOf(Home[r])
           /\ c \in Column
           /\ c # KeyColumn
           /\ Foreign[Home[r]][c] \in Table
<1>1. Home[r] \in Table
  BY RowAssumption
<1> QED
  BY <1>1, ForeignAssumption, ColumnsOfTable DEF ForeignKeys

\* The key column is a column of every table.
LEMMA KeyIsColumn ==
    ASSUME NEW t \in Table
    PROVE  KeyColumn \in ColumnsOf(t)
<1>1. ColumnNum[t] \in Nat \ {0}
  BY TableAssumption
<1> QED
  BY <1>1 DEF ColumnsOf, KeyColumn

\* A row's contents are not the NULL pointer.
LEMMA ContentsNotNone ==
    ASSUME NEW t \in Table, NEW f \in Contents(t)
    PROVE  f # None
BY RowAssumption DEF Contents

\* First gives a member of a non-empty set, and None for the empty one.
LEMMA FirstMember ==
    ASSUME NEW S, S \subseteq Row
    PROVE  /\ S # {} => First(S) \in S
           /\ S = {} => First(S) = None
<1>1. S \subseteq Nat
  BY RowAssumption
<1>2. S # {} => \E r \in S : \A x \in S : r <= x
  BY <1>1, LeastExists
<1> QED
  BY <1>2 DEF First

\* Setting a column of a row, new or not, gives contents of the row's table that
\* differ from the old ones in that column only.
LEMMA WrittenContents ==
    ASSUME TypeOK, NEW r \in Row, NEW c \in ColumnsOf(Home[r]), NEW v \in Value
    PROVE  /\ Written(r, c, v) \in Contents(Home[r])
           /\ Written(r, c, v)[c] = v
           /\ data[r] # None => \A d \in ColumnsOf(Home[r]) \ {c} :
                                    Written(r, c, v)[d] = data[r][d]
<1>1. Home[r] \in Table /\ Empty \in Value
  BY RowAssumption
<1>2. CASE data[r] = None
  BY <1>1, <1>2 DEF Written, Contents
<1>3. CASE data[r] # None
  <2>1. data[r] \in Contents(Home[r])
    BY <1>3 DEF TypeOK
  <2> QED
    BY <1>3, <2>1 DEF Written, Contents
<1> QED
  BY <1>2, <1>3

-----------------------------------------------------------------------------
(* Types                                                                   *)

\* The hash that init_data leaves maps every key to a row or to None.
LEMMA IndexRowsType ==
    ASSUME TypeOK, NEW t \in Table
    PROVE  IndexRows(t) \in [Value -> Row \union {None}]
<1>1. ASSUME NEW k \in Value
      PROVE  (IF hash[t][k] # None THEN hash[t][k]
              ELSE First({r \in RowsOf(t) : data[r][KeyColumn] = k})) \in Row \union {None}
  <2>1. {r \in RowsOf(t) : data[r][KeyColumn] = k} \subseteq Row
    BY DEF RowsOf, TypeOK
  <2>2. hash[t][k] \in Row \union {None}
    BY DEF TypeOK
  <2> QED
    BY <2>1, <2>2, FirstMember
<1> QED
  BY <1>1 DEF IndexRows

\* The sets of tables that a step of init_data computes.
LEMMA LoadedTables ==
    ASSUME TypeOK, NEW stop \in (path \ hasData) \union {TableNum}
    PROVE  /\ hasData \subseteq Loaded(stop)
           /\ Loaded(stop) \subseteq path
           /\ stop \notin Loaded(stop)
           /\ {stop} \intersect Table \subseteq path \ Loaded(stop)
           /\ stop = TableNum => Loaded(stop) = path
<1>1. TableNum \in Nat /\ TableNum \notin Table /\ \A t \in Table : t \in Nat /\ t <= TableNum
  BY TableAssumption DEF Table
<1>2. path \subseteq Table /\ hasData \subseteq path
  BY DEF TypeOK
<1>3. stop \notin hasData
  BY <1>1, <1>2
<1> QED
  BY <1>1, <1>2, <1>3 DEF Loaded, Reached

THEOREM TypeInit == Init => TypeOK
<1> SUFFICES ASSUME Init PROVE TypeOK
  OBVIOUS
<1>1. stat \in [Row -> RowStat] /\ hash \in [Table -> [Value -> Row \union {None}]]
  BY DEF Init, RowStat
<1> QED
  BY <1>1 DEF Init, TypeOK

THEOREM TypeStep == TypeOK /\ [Next]_vars => TypeOK'
<1> SUFFICES ASSUME TypeOK, [Next]_vars PROVE TypeOK'
  OBVIOUS
<1>a. Home \in [Row -> Table]
  BY RowAssumption
<1>1. ASSUME NEW S \in DaoLoads, DaoInit(S)
      PROVE  TypeOK'
  <2>1. S \subseteq Table
    BY TableAssumption
  <2>2. PICK rows \in SUBSET {r \in Row \ (base \union added) : Home[r] \in S} :
          \E contents \in [rows -> UNION {Contents(t) : t \in S}] :
            /\ \A r \in rows : contents[r] \in Contents(Home[r])
            /\ base' = base \union rows
            /\ data' = [r \in Row |-> IF r \in rows THEN contents[r] ELSE data[r]]
    BY <1>1 DEF DaoInit
  <2>3. /\ base' \subseteq Row /\ added' \subseteq Row \ base'
        /\ DOMAIN data' = Row
        /\ \A r \in Row : data'[r] \in Contents(Home[r]) \union {None}
        /\ \A r \in base' : data'[r] # None
        /\ \A r \in Row \ (base' \union added') : data'[r] = None
    BY <1>a, <1>1, <2>2, ContentsNotNone DEF DaoInit, TypeOK
  <2> QED
    BY <1>1, <2>1, <2>3 DEF DaoInit, TypeOK, loads
<1>2. ASSUME NEW m \in Modes, NEW stop \in 0 .. TableNum, InitData(m[1], m[2], stop)
      PROVE  TypeOK'
  <2> DEFINE unlinked == Loaded(stop) \ hasRev
  <2>1. stop \in (path \ hasData) \union {TableNum}
    BY <1>2 DEF InitData
  <2>2. /\ hasData' = Loaded(stop) /\ stuck' = {stop} \intersect Table
        /\ hash' = IndexAfter(m[1], stop)
        /\ UNCHANGED <<path, base, added, data, stat>>
    BY <1>2 DEF InitData, files
  <2>3. hash' \in [Table -> [Value -> Row \union {None}]]
    BY <2>2, IndexRowsType DEF TypeOK, IndexAfter
  <2>4. hasRev' \subseteq hasData'
    BY <1>2, <2>1, LoadedTables DEF InitData, TypeOK
  <2>5. rev' \in [Row -> SUBSET (Column \X Row)]
    <3>1. \A n \in Row : EntriesFor(n, unlinked, hash') \subseteq Column \X Row
      BY DEF EntriesFor, TypeOK
    <3>2. \/ rev' = [n \in Row |-> rev[n] \union EntriesFor(n, unlinked, hash')]
          \/ rev' = rev
      BY <1>2 DEF InitData
    <3> HIDE DEF unlinked
    <3>3. rev \in [Row -> SUBSET (Column \X Row)]
      BY DEF TypeOK
    <3> QED
      BY <3>1, <3>2, <3>3
  <2>6. incomplete' \subseteq Table \X Value
    <3>1. ASSUME NEW r \in base
          PROVE  <<Home[r], data[r][KeyColumn]>> \in Table \X Value
      <4>1. r \in Row /\ data[r] \in Contents(Home[r])
        BY DEF TypeOK
      <4> QED
        BY <1>a, <4>1, KeyIsColumn DEF Contents
    <3>2. Unresolved(unlinked, hash') \subseteq Table \X Value
      BY <3>1 DEF Unresolved
    <3> QED
      BY <1>2, <3>2 DEF InitData, TypeOK
  <2> QED
    BY <2>1, <2>2, <2>3, <2>4, <2>5, <2>6, LoadedTables DEF TypeOK
<1>3. ASSUME NEW t \in Table, Add(t)
      PROVE  TypeOK'
  <2>1. PICK r \in Row \ (base \union added) :
            /\ added' = added \union {r}
            /\ stat' = [stat EXCEPT ![r] = "UPDATE_ROW"]
    BY <1>3 DEF Add
  <2>2. stat' \in [Row -> RowStat]
    BY <2>1 DEF TypeOK, RowStat
  <2> QED
    BY <1>3, <2>1, <2>2 DEF Add, TypeOK, files, loads
<1>4. ASSUME NEW r \in Row, NEW c \in Column, NEW v \in Value, SetColumn(r, c, v)
      PROVE  TypeOK'
  <2>1. c \in ColumnsOf(Home[r]) /\ r \in base \union added
    BY <1>4 DEF SetColumn, Live
  <2>2. data' = [data EXCEPT ![r] = Written(r, c, v)]
    BY <1>4 DEF SetColumn
  <2>3. Written(r, c, v) \in Contents(Home[r]) /\ Written(r, c, v) # None
    BY <1>a, <2>1, WrittenContents, ContentsNotNone
  <2>4. /\ DOMAIN data' = Row
        /\ \A x \in Row : data'[x] = IF x = r THEN Written(r, c, v) ELSE data[x]
    BY <2>2 DEF TypeOK
  <2>5. stat' \in [Row -> RowStat]
    BY <1>4 DEF SetColumn, TypeOK, RowStat
  <2>6. hash' \in [Table -> [Value -> Row \union {None}]]
    BY <1>4, <1>a DEF SetColumn, TypeOK, HashSet
  <2>7. rev' \in [Row -> SUBSET (Column \X Row)]
    BY <1>4 DEF SetColumn, TypeOK, DelReverse
  <2> QED
    BY <1>4, <2>1, <2>3, <2>4, <2>5, <2>6, <2>7 DEF SetColumn, TypeOK, files, loads
<1>5. ASSUME NEW r \in Row, Del(r)
      PROVE  TypeOK'
  <2>1. stat' \in [Row -> RowStat]
    BY <1>5 DEF Del, TypeOK, RowStat
  <2>2. rev' \in [Row -> SUBSET (Column \X Row)]
    BY <1>5 DEF Del, TypeOK, DelReverse
  <2> QED
    BY <1>5, <2>1, <2>2 DEF Del, TypeOK, files, loads
<1>6. CASE UNCHANGED vars
  BY <1>6 DEF TypeOK, vars
<1> QED
  BY <1>1, <1>2, <1>3, <1>4, <1>5, <1>6 DEF Next

\* The variables of every reachable state have their types, and a row has data
\* when it is of a file or, once a client has set a column of it, added.
THEOREM TypeCorrect == Spec => []TypeOK
<1> QED
  BY TypeInit, TypeStep, PTL DEF Spec

-----------------------------------------------------------------------------
(* The hash index                                                          *)

\* A step keeps the data of a row that has data but for the column it sets, and
\* never changes its key: init writes the data of new rows only, and
\* set_column_data refuses the key of a row that has data.
LEMMA DataKept ==
    ASSUME TypeOK, [Next]_vars, NEW r \in Row, data[r] # None
    PROVE  /\ r \in base' \union added'
           /\ data'[r] # None
           /\ data'[r][KeyColumn] = data[r][KeyColumn]
<1>a. r \in base \union added
  BY DEF TypeOK
<1>b. Home[r] \in Table
  BY RowAssumption
<1>1. ASSUME NEW S \in DaoLoads, DaoInit(S)
      PROVE  r \in base' \union added' /\ data'[r] = data[r]
  BY <1>a, <1>1 DEF DaoInit
<1>2. ASSUME NEW m \in Modes, NEW stop \in 0 .. TableNum, InitData(m[1], m[2], stop)
      PROVE  r \in base' \union added' /\ data'[r] = data[r]
  BY <1>a, <1>2 DEF InitData, files
<1>3. ASSUME NEW t \in Table, Add(t)
      PROVE  r \in base' \union added' /\ data'[r] = data[r]
  BY <1>a, <1>3 DEF Add, files
<1>4. ASSUME NEW x \in Row, NEW c \in Column, NEW v \in Value, SetColumn(x, c, v)
      PROVE  /\ r \in base' \union added'
             /\ data'[r] # None
             /\ data'[r][KeyColumn] = data[r][KeyColumn]
  <2>1. data' = [data EXCEPT ![x] = Written(x, c, v)] /\ c \in ColumnsOf(Home[x])
        /\ UNCHANGED <<base, added>>
    BY <1>4 DEF SetColumn, files
  <2>2. CASE x # r
    BY <1>a, <2>1, <2>2 DEF TypeOK
  <2>3. CASE x = r
    <3>1. c # KeyColumn
      BY <1>4, <2>3 DEF SetColumn, Settable
    <3>2. data'[r] = Written(r, c, v)
      BY <2>1, <2>3 DEF TypeOK
    <3>3. data'[r] # None
      BY <1>b, <2>1, <2>3, <3>2, WrittenContents, ContentsNotNone
    <3>4. data'[r][KeyColumn] = data[r][KeyColumn]
      BY <1>b, <2>1, <2>3, <3>1, <3>2, WrittenContents, KeyIsColumn
    <3> QED
      BY <1>a, <2>1, <3>3, <3>4
  <2> QED
    BY <2>2, <2>3
<1>5. ASSUME NEW x \in Row, Del(x)
      PROVE  r \in base' \union added' /\ data'[r] = data[r]
  BY <1>a, <1>5 DEF Del, files
<1>6. CASE UNCHANGED vars
  BY <1>a, <1>6 DEF vars
<1> QED
  BY <1>1, <1>2, <1>3, <1>4, <1>5, <1>6 DEF Next

\* An entry of a hash index stays as it is, and a new one is to a row of the
\* table that has the key.
LEMMA HashGrows ==
    ASSUME TypeOK, [Next]_vars, NEW t \in Table, NEW k \in Value
    PROVE  \/ hash'[t][k] = hash[t][k]
           \/ /\ hash[t][k] = None
              /\ LET r == hash'[t][k] IN
                 /\ r \in Row /\ Home[r] = t
                 /\ data'[r] # None
                 /\ data'[r][KeyColumn] = k
<1>1. ASSUME NEW S \in DaoLoads, DaoInit(S)
      PROVE  hash'[t][k] = hash[t][k]
  BY <1>1 DEF DaoInit
<1>2. ASSUME NEW m \in Modes, NEW stop \in 0 .. TableNum, InitData(m[1], m[2], stop),
             hash'[t][k] # hash[t][k]
      PROVE  /\ hash[t][k] = None
             /\ hash'[t][k] \in Row /\ Home[hash'[t][k]] = t
             /\ data'[hash'[t][k]] # None
             /\ data'[hash'[t][k]][KeyColumn] = k
  <2>1. hash' = IndexAfter(m[1], stop) /\ data' = data
    BY <1>2 DEF InitData
  <2>2. hash'[t] = IndexRows(t)
    BY <1>2, <2>1 DEF IndexAfter
  <2> DEFINE candidates == {r \in RowsOf(t) : data[r][KeyColumn] = k}
  <2>3. hash[t][k] = None /\ hash'[t][k] = First(candidates)
    BY <1>2, <2>2 DEF IndexRows
  <2>4. hash'[t][k] \in candidates
    <3>1. candidates \subseteq Row
      BY DEF RowsOf, TypeOK
    <3> HIDE DEF candidates
    <3> QED
      BY <1>2, <2>3, <3>1, FirstMember
  <2> QED
    BY <2>1, <2>3, <2>4 DEF RowsOf, TypeOK
<1>3. ASSUME NEW x \in Table, Add(x)
      PROVE  hash'[t][k] = hash[t][k]
  BY <1>3 DEF Add
<1>4. ASSUME NEW x \in Row, NEW c \in Column, NEW v \in Value, SetColumn(x, c, v),
             hash'[t][k] # hash[t][k]
      PROVE  /\ hash[t][k] = None
             /\ hash'[t][k] \in Row /\ Home[hash'[t][k]] = t
             /\ data'[hash'[t][k]] # None
             /\ data'[hash'[t][k]][KeyColumn] = k
  <2>1. c = KeyColumn /\ hash' = [hash EXCEPT ![Home[x]] = HashSet(@, v, x)]
    BY <1>4 DEF SetColumn
  <2>2. t = Home[x] /\ k = v /\ hash[t][k] = None /\ hash'[t][k] = x
    BY <1>4, <2>1 DEF HashSet, TypeOK
  <2>3. data'[x] = Written(x, c, v) /\ c \in ColumnsOf(Home[x])
    BY <1>4 DEF SetColumn, TypeOK
  <2>4. data'[x] # None /\ data'[x][c] = v
    BY <2>2, <2>3, WrittenContents, ContentsNotNone
  <2> QED
    BY <2>1, <2>2, <2>4
<1>5. ASSUME NEW x \in Row, Del(x)
      PROVE  hash'[t][k] = hash[t][k]
  BY <1>5 DEF Del
<1>6. CASE UNCHANGED vars
  BY <1>6 DEF vars
<1> QED
  BY <1>1, <1>2, <1>3, <1>4, <1>5, <1>6 DEF Next

THEOREM HashStep == TypeOK /\ HashSound /\ [Next]_vars => HashSound'
<1> SUFFICES ASSUME TypeOK, HashSound, [Next]_vars,
                    NEW t \in Table, NEW k \in Value, hash'[t][k] # None
             PROVE  /\ Home[hash'[t][k]] = t
                    /\ data'[hash'[t][k]] # None
                    /\ data'[hash'[t][k]][KeyColumn] = k
  BY DEF HashSound
<1>1. CASE hash'[t][k] = hash[t][k]
  <2> DEFINE r == hash[t][k]
  <2>1. r \in Row
    BY <1>1 DEF TypeOK
  <2>2. Home[r] = t /\ data[r] # None /\ data[r][KeyColumn] = k
    BY <1>1 DEF HashSound
  <2> QED
    BY <1>1, <2>1, <2>2, DataKept
<1>2. CASE hash'[t][k] # hash[t][k]
  BY <1>2, HashGrows
<1> QED
  BY <1>1, <1>2

\* In every reachable state a table's hash index gives, for a key, a row of that
\* table that has the key.
THEOREM HashCorrect == Spec => []HashSound
<1>1. Init => HashSound
  BY DEF Init, HashSound
<1> QED
  BY <1>1, HashStep, TypeInit, TypeStep, PTL DEF Spec

-----------------------------------------------------------------------------
(* The reverse index: steps and entries                                    *)

\* The value a row has in a foreign key column.
LEMMA ForeignKeyValue ==
    ASSUME TypeOK, NEW r \in Row, data[r] # None, NEW c \in ForeignKeys(r)
    PROVE  data[r][c] \in Value
<1>1. data[r] \in Contents(Home[r])
  BY DEF TypeOK
<1> QED
  BY <1>1, ForeignKeyColumns DEF Contents

\* A foreign key that resolves to a row goes on resolving to it.
LEMMA ReferentKept ==
    ASSUME TypeOK, [Next]_vars, NEW r \in Row, NEW c \in ForeignKeys(r),
           NEW k \in Value, NEW n \in Row, Referent(r, c, k) = n
    PROVE  hash'[Foreign[Home[r]][c]][k] = n
<1>1. Foreign[Home[r]][c] \in Table
  BY ForeignKeyColumns
<1>2. hash[Foreign[Home[r]][c]][k] = n /\ n # None
  BY RowAssumption DEF Referent, Lookup
<1> QED
  BY <1>1, <1>2, HashGrows

\* set_reverse_index adds entries of rows of the files of the tables it walks.
LEMMA InitDataEntries ==
    ASSUME TypeOK, NEW m \in Modes, NEW stop \in 0 .. TableNum,
           InitData(m[1], m[2], stop), NEW n \in Row, NEW e \in rev'[n], e \notin rev[n]
    PROVE  /\ stop = TableNum
           /\ hasRev' = Loaded(stop)
           /\ e[2] \in base
           /\ Home[e[2]] \in Loaded(stop) \ hasRev
           /\ e[1] \in ForeignKeys(e[2])
           /\ hash'[Foreign[Home[e[2]]][e[1]]][data[e[2]][e[1]]] = n
<1>1. /\ stop = TableNum /\ hasRev' = Loaded(stop)
      /\ rev' = [x \in Row |-> rev[x] \union EntriesFor(x, Loaded(stop) \ hasRev, hash')]
  BY DEF InitData
<1>2. e \in EntriesFor(n, Loaded(stop) \ hasRev, hash')
  BY <1>1
<1> QED
  BY <1>1, <1>2 DEF EntriesFor

\* set_column_data on a foreign key: an entry it leaves is the new one, or one it
\* found and did not have to drop.
LEMMA SetColumnEntries ==
    ASSUME TypeOK, NEW r \in Row, NEW c \in ForeignKeys(r), NEW v \in Value,
           SetColumn(r, c, v), NEW n \in Row, NEW e \in rev'[n]
    PROVE  \/ e = <<c, r>> /\ n = Referent(r, c, v)
           \/ /\ e \in rev[n]
              /\ e[2] = r => n # Referent(r, c, OldValue(r, c))
<1> DEFINE kept == IF n = Referent(r, c, OldValue(r, c))
                   THEN DelReverse(rev[n], r) ELSE rev[n]
<1>1. rev'[n] = kept \union {x \in {<<c, r>>} : n = Referent(r, c, v)}
  BY DEF SetColumn
<1> QED
  BY <1>1 DEF DelReverse

\* A step adds an entry to a reverse list in init_data, for rows of the tables it
\* walks, or in set_column_data, for the row and column it sets.
LEMMA EntryOrigin ==
    ASSUME TypeOK, [Next]_vars, NEW n \in Row, NEW e \in rev'[n], e \notin rev[n]
    PROVE  \/ \E m \in Modes, stop \in 0 .. TableNum : InitData(m[1], m[2], stop)
           \/ \E r \in Row, c \in Column, v \in Value :
                 /\ SetColumn(r, c, v)
                 /\ c \in ForeignKeys(r)
                 /\ e = <<c, r>> /\ n = Referent(r, c, v)
<1>1. ASSUME NEW S \in DaoLoads, DaoInit(S)
      PROVE  FALSE
  BY <1>1 DEF DaoInit
<1>2. ASSUME NEW t \in Table, Add(t)
      PROVE  FALSE
  BY <1>2 DEF Add
<1>3. ASSUME NEW r \in Row, NEW c \in Column, NEW v \in Value, SetColumn(r, c, v)
      PROVE  c \in ForeignKeys(r) /\ e = <<c, r>> /\ n = Referent(r, c, v)
  <2>1. c \in ForeignKeys(r)
    BY <1>3 DEF SetColumn
  <2> QED
    BY <1>3, <2>1, SetColumnEntries
<1>4. ASSUME NEW r \in Row, Del(r)
      PROVE  FALSE
  BY <1>4 DEF Del, DelReverse
<1>5. CASE UNCHANGED vars
  BY <1>5 DEF vars
<1> QED
  BY <1>1, <1>2, <1>3, <1>4, <1>5 DEF Next

-----------------------------------------------------------------------------
(* The entries hold                                                        *)

\* An entry that a step leaves in a list goes on being a reference that holds.
LEMMA OldEntrySound ==
    ASSUME TypeOK, RevSound, [Next]_vars,
           NEW n \in Row, NEW e \in rev[n], e \in rev'[n]
    PROVE  /\ e[2] \in base' \union added'
           /\ data'[e[2]] # None
           /\ e[1] \in ForeignKeys(e[2])
           /\ hash'[Foreign[Home[e[2]]][e[1]]][data'[e[2]][e[1]]] = n
<1> DEFINE r == e[2]
           c == e[1]
<1>1. /\ r \in Row /\ data[r] # None /\ c \in ForeignKeys(r)
      /\ Referent(r, c, data[r][c]) = n
  BY DEF RevSound, TypeOK
<1>2. r \in base' \union added' /\ data'[r] # None
  BY <1>1, DataKept
<1>3. data[r][c] \in Value
  BY <1>1, ForeignKeyValue
<1>4. hash'[Foreign[Home[r]][c]][data[r][c]] = n
  BY <1>1, <1>3, ReferentKept
<1>5. CASE data'[r][c] = data[r][c]
  BY <1>1, <1>2, <1>4, <1>5
<1>6. CASE data'[r][c] # data[r][c]
  <2>1. ASSUME NEW S \in DaoLoads, DaoInit(S)
        PROVE  FALSE
    BY <1>1, <1>6, <2>1 DEF DaoInit, TypeOK
  <2>2. ASSUME NEW m \in Modes, NEW stop \in 0 .. TableNum, InitData(m[1], m[2], stop)
        PROVE  FALSE
    BY <1>6, <2>2 DEF InitData
  <2>3. ASSUME NEW t \in Table, Add(t)
        PROVE  FALSE
    BY <1>6, <2>3 DEF Add
  <2>4. ASSUME NEW x \in Row, NEW d \in Column, NEW v \in Value, SetColumn(x, d, v)
        PROVE  hash'[Foreign[Home[r]][c]][data'[r][c]] = n
    <3>1. data' = [data EXCEPT ![x] = Written(x, d, v)] /\ d \in ColumnsOf(Home[x])
      BY <2>4 DEF SetColumn
    <3>2. x = r /\ data'[r] = Written(r, d, v)
      BY <1>1, <1>6, <3>1 DEF TypeOK
    <3>3. c = d
      BY <1>1, <1>6, <3>1, <3>2, WrittenContents, ForeignKeyColumns
    <3>4. OldValue(r, c) = data[r][c]
      BY <1>1 DEF OldValue
    <3>5. e = <<c, r>> /\ n = Referent(r, c, v)
      BY <1>1, <2>4, <3>2, <3>3, <3>4, SetColumnEntries
    <3>6. data'[r][c] = v
      BY <1>1, <3>1, <3>2, <3>3, WrittenContents
    <3> QED
      BY <1>1, <3>5, <3>6, ReferentKept
  <2>5. ASSUME NEW x \in Row, Del(x)
        PROVE  FALSE
    BY <1>6, <2>5 DEF Del
  <2>6. CASE UNCHANGED vars
    BY <1>6, <2>6 DEF vars
  <2> QED
    BY <1>1, <1>2, <2>1, <2>2, <2>3, <2>4, <2>5, <2>6 DEF Next
<1> QED
  BY <1>5, <1>6

\* An entry that a step adds is a reference that holds.
LEMMA NewEntrySound ==
    ASSUME TypeOK, [Next]_vars, NEW n \in Row, NEW e \in rev'[n], e \notin rev[n]
    PROVE  /\ e[2] \in base' \union added'
           /\ data'[e[2]] # None
           /\ e[1] \in ForeignKeys(e[2])
           /\ hash'[Foreign[Home[e[2]]][e[1]]][data'[e[2]][e[1]]] = n
<1>1. ASSUME NEW m \in Modes, NEW stop \in 0 .. TableNum, InitData(m[1], m[2], stop)
      PROVE  /\ e[2] \in base' \union added'
             /\ data'[e[2]] # None
             /\ e[1] \in ForeignKeys(e[2])
             /\ hash'[Foreign[Home[e[2]]][e[1]]][data'[e[2]][e[1]]] = n
  <2>1. data' = data /\ base' = base
    BY <1>1 DEF InitData, files
  <2> QED
    BY <1>1, <2>1, InitDataEntries DEF TypeOK
<1>2. ASSUME NEW r \in Row, NEW c \in Column, NEW v \in Value, SetColumn(r, c, v),
             c \in ForeignKeys(r), e = <<c, r>>, n = Referent(r, c, v)
      PROVE  /\ e[2] \in base' \union added'
             /\ data'[e[2]] # None
             /\ e[1] \in ForeignKeys(e[2])
             /\ hash'[Foreign[Home[e[2]]][e[1]]][data'[e[2]][e[1]]] = n
  <2>1. /\ r \in base' \union added'
        /\ data'[r] = Written(r, c, v) /\ c \in ColumnsOf(Home[r])
    BY <1>2 DEF SetColumn, Live, files, TypeOK
  <2>2. data'[r] # None /\ data'[r][c] = v
    BY <2>1, WrittenContents, ContentsNotNone, RowAssumption
  <2> QED
    BY <1>2, <2>1, <2>2, ReferentKept
<1> QED
  BY <1>1, <1>2, EntryOrigin

THEOREM RevStep == TypeOK /\ RevSound /\ [Next]_vars => RevSound'
<1> SUFFICES ASSUME TypeOK, RevSound, [Next]_vars, NEW n \in Row, NEW e \in rev'[n]
             PROVE  /\ e[2] \in base' \union added'
                    /\ data'[e[2]] # None
                    /\ e[1] \in ForeignKeys(e[2])
                    /\ hash'[Foreign[Home[e[2]]][e[1]]][data'[e[2]][e[1]]] = n
  BY DEF RevSound, Referent, Lookup
<1> QED
  BY OldEntrySound, NewEntrySound

\* In every reachable state each entry of a reverse list is a reference that the
\* hash index resolves to the list's owner.
THEOREM RevCorrect == Spec => []RevSound
<1>1. Init => RevSound
  BY DEF Init, RevSound
<1> QED
  BY <1>1, RevStep, TypeInit, TypeStep, PTL DEF Spec

-----------------------------------------------------------------------------
(* Deleted rows                                                            *)

\* What the next invariants add to the types, when init_data is called with its
\* default arguments: a client has changed no row of a table without data, and
\* a table has its reverse index as soon as it has data, unless init_data failed.
LoadOrder ==
    /\ \A r \in Row : stat[r] # "NORMAL_ROW" => Home[r] \in hasData \union stuck
    /\ stuck = {} => hasRev = hasData

DefaultArguments == \A m \in Modes : m = <<TRUE, TRUE>>

LEMMA LoadOrderStep ==
    ASSUME DefaultArguments
    PROVE  TypeOK /\ LoadOrder /\ [Next]_vars => LoadOrder'
<1> SUFFICES ASSUME TypeOK, LoadOrder, [Next]_vars PROVE LoadOrder'
  OBVIOUS
<1>1. ASSUME NEW S \in DaoLoads, DaoInit(S)
      PROVE  LoadOrder'
  BY <1>1 DEF DaoInit, LoadOrder, loads
<1>2. ASSUME NEW m \in Modes, NEW stop \in 0 .. TableNum, InitData(m[1], m[2], stop)
      PROVE  LoadOrder'
  <2>1. m[1] /\ m[2]
    <3>1. m = <<TRUE, TRUE>>
      BY DEF DefaultArguments
    <3> QED
      BY <3>1
  <2>2. /\ hasData' = Loaded(stop) /\ stuck = {} /\ stat' = stat
        /\ stuck' = {stop} \intersect Table
        /\ stop = TableNum => hasRev' = Loaded(stop)
    BY <1>2, <2>1 DEF InitData
  <2>3. hasData \subseteq Loaded(stop)
    BY <1>2, LoadedTables DEF InitData
  <2>4. stop # TableNum => stop \in Table
    BY TableAssumption DEF Table
  <2> QED
    BY <2>2, <2>3, <2>4 DEF LoadOrder
<1>3. ASSUME NEW t \in Table, Add(t)
      PROVE  LoadOrder'
  <2>1. PICK r \in Row : Home[r] = t /\ stat' = [stat EXCEPT ![r] = "UPDATE_ROW"]
    BY <1>3 DEF Add
  <2> QED
    BY <1>3, <2>1 DEF Add, LoadOrder, loads, TypeOK
<1>4. ASSUME NEW r \in Row, NEW c \in Column, NEW v \in Value, SetColumn(r, c, v)
      PROVE  LoadOrder'
  BY <1>4 DEF SetColumn, LoadOrder, Live, loads, TypeOK
<1>5. ASSUME NEW r \in Row, Del(r)
      PROVE  LoadOrder'
  BY <1>5 DEF Del, LoadOrder, Live, loads, TypeOK
<1>6. CASE UNCHANGED vars
  BY <1>6 DEF LoadOrder, vars
<1> QED
  BY <1>1, <1>2, <1>3, <1>4, <1>5, <1>6 DEF Next

LEMMA LoadOrderInit == Init => LoadOrder
BY DEF Init, LoadOrder

\* del takes the entries of the row it deletes out of all the lists.
LEMMA DelLeavesNoEntry ==
    ASSUME TypeOK, RevSound, NEW r \in Row, Del(r), NEW n \in Row, NEW e \in rev'[n]
    PROVE  e[2] # r
<1> SUFFICES ASSUME e[2] = r PROVE FALSE
  OBVIOUS
<1>1. rev'[n] = IF \E c \in ForeignKeys(r) : n = Referent(r, c, data[r][c])
                THEN DelReverse(rev[n], r) ELSE rev[n]
  BY DEF Del
<1>2. e \in rev[n]
  BY <1>1 DEF DelReverse
<1>3. e[1] \in ForeignKeys(r) /\ n = Referent(r, e[1], data[r][e[1]])
  BY <1>2 DEF RevSound
<1> QED
  BY <1>1, <1>3 DEF DelReverse

LEMMA RevLiveStep ==
    ASSUME DefaultArguments
    PROVE  TypeOK /\ RevSound /\ LoadOrder /\ RevLive /\ [Next]_vars => RevLive'
<1> SUFFICES ASSUME TypeOK, RevSound, LoadOrder, RevLive, [Next]_vars,
                    NEW n \in Row, NEW e \in rev'[n]
             PROVE  stat'[e[2]] # "DELETE_ROW"
  BY DEF RevLive
<1> DEFINE r == e[2]
<1>a. r \in Row
  BY TypeStep DEF TypeOK
<1>b. e \in rev[n] => stat[r] # "DELETE_ROW"
  BY DEF RevLive
<1>1. ASSUME NEW S \in DaoLoads, DaoInit(S)
      PROVE  stat'[r] # "DELETE_ROW"
  BY <1>b, <1>1 DEF DaoInit
<1>2. ASSUME NEW m \in Modes, NEW stop \in 0 .. TableNum, InitData(m[1], m[2], stop)
      PROVE  stat'[r] # "DELETE_ROW"
  <2>1. stat' = stat /\ stuck = {}
    BY <1>2 DEF InitData
  <2>2. CASE e \notin rev[n]
    <3>1. Home[r] \notin hasRev
      BY <1>2, <2>2, InitDataEntries
    <3> QED
      BY <1>a, <2>1, <3>1 DEF LoadOrder
  <2> QED
    BY <1>b, <2>1, <2>2
<1>3. ASSUME NEW t \in Table, Add(t)
      PROVE  stat'[r] # "DELETE_ROW"
  BY <1>a, <1>b, <1>3 DEF Add, TypeOK
<1>4. ASSUME NEW x \in Row, NEW c \in Column, NEW v \in Value, SetColumn(x, c, v)
      PROVE  stat'[r] # "DELETE_ROW"
  <2>1. stat' = [stat EXCEPT ![x] = "UPDATE_ROW"]
    BY <1>4 DEF SetColumn
  <2>2. CASE c \notin ForeignKeys(x)
    BY <1>a, <1>b, <1>4, <2>1, <2>2 DEF SetColumn, TypeOK
  <2>3. CASE c \in ForeignKeys(x)
    <3>1. e = <<c, x>> \/ e \in rev[n]
      BY <1>4, <2>3, SetColumnEntries
    <3> QED
      BY <1>a, <1>b, <2>1, <3>1 DEF TypeOK
  <2> QED
    BY <2>2, <2>3
<1>5. ASSUME NEW x \in Row, Del(x)
      PROVE  stat'[r] # "DELETE_ROW"
  <2>1. r # x
    BY <1>5, DelLeavesNoEntry
  <2>2. e \in rev[n]
    BY <1>5 DEF Del, DelReverse
  <2> QED
    BY <1>a, <1>b, <1>5, <2>1, <2>2 DEF Del, TypeOK
<1>6. CASE UNCHANGED vars
  BY <1>b, <1>6 DEF vars
<1> QED
  BY <1>1, <1>2, <1>3, <1>4, <1>5, <1>6 DEF Next

\* With init_data's default arguments no reverse list holds an entry of a deleted
\* row, in any reachable state.
THEOREM RevLiveCorrect ==
    ASSUME DefaultArguments
    PROVE  Spec => []RevLive
<1>1. Init => RevSound /\ RevLive
  BY DEF Init, RevSound, RevLive
<1> QED
  BY <1>1, RevLiveStep, RevStep, LoadOrderInit, LoadOrderStep, TypeInit, TypeStep, PTL
  DEF Spec

-----------------------------------------------------------------------------
(* Rows that are unchanged                                                 *)

\* An entry leaves a list only in a step that changes the row the entry names.
LEMMA EntryKept ==
    ASSUME TypeOK, [Next]_vars, NEW n \in Row, NEW e \in rev[n],
           stat'[e[2]] = "NORMAL_ROW"
    PROVE  e \in rev'[n]
<1>a. e[2] \in Row
  BY DEF TypeOK
<1>1. ASSUME NEW S \in DaoLoads, DaoInit(S)
      PROVE  rev' = rev
  BY <1>1 DEF DaoInit
<1>2. ASSUME NEW m \in Modes, NEW stop \in 0 .. TableNum, InitData(m[1], m[2], stop)
      PROVE  e \in rev'[n]
  BY <1>2 DEF InitData
<1>3. ASSUME NEW t \in Table, Add(t)
      PROVE  rev' = rev
  BY <1>3 DEF Add
<1>4. ASSUME NEW x \in Row, NEW c \in Column, NEW v \in Value, SetColumn(x, c, v)
      PROVE  e \in rev'[n]
  <2>1. e[2] # x
    BY <1>a, <1>4 DEF SetColumn, TypeOK
  <2> QED
    BY <1>4, <2>1 DEF SetColumn, DelReverse
<1>5. ASSUME NEW x \in Row, Del(x)
      PROVE  e \in rev'[n]
  <2>1. e[2] # x
    BY <1>a, <1>5 DEF Del, TypeOK
  <2> QED
    BY <1>5, <2>1 DEF Del, DelReverse
<1>6. CASE UNCHANGED vars
  BY <1>6 DEF vars
<1> QED
  BY <1>1, <1>2, <1>3, <1>4, <1>5, <1>6 DEF Next

\* A row that is unchanged after a step was so before it, unless the step took a
\* fresh row into a file, and it keeps its data.
LEMMA UnchangedRow ==
    ASSUME TypeOK, [Next]_vars, NEW r \in base', stat'[r] = "NORMAL_ROW",
           Home[r] \in hasRev
    PROVE  r \in base /\ stat[r] = "NORMAL_ROW" /\ data'[r] = data[r]
<1>a. r \in Row /\ Home[r] \in path
  BY TypeStep DEF TypeOK
<1>1. ASSUME NEW S \in DaoLoads, DaoInit(S)
      PROVE  r \in base /\ stat[r] = "NORMAL_ROW" /\ data'[r] = data[r]
  <2>1. Home[r] \notin S /\ stat' = stat
    BY <1>a, <1>1 DEF DaoInit
  <2> QED
    BY <1>a, <1>1, <2>1 DEF DaoInit
<1>2. ASSUME NEW m \in Modes, NEW stop \in 0 .. TableNum, InitData(m[1], m[2], stop)
      PROVE  r \in base /\ stat[r] = "NORMAL_ROW" /\ data'[r] = data[r]
  BY <1>2 DEF InitData, files
<1>3. ASSUME NEW t \in Table, Add(t)
      PROVE  r \in base /\ stat[r] = "NORMAL_ROW" /\ data'[r] = data[r]
  BY <1>a, <1>3 DEF Add, files, TypeOK
<1>4. ASSUME NEW x \in Row, NEW c \in Column, NEW v \in Value, SetColumn(x, c, v)
      PROVE  r \in base /\ stat[r] = "NORMAL_ROW" /\ data'[r] = data[r]
  BY <1>a, <1>4 DEF SetColumn, files, TypeOK
<1>5. ASSUME NEW x \in Row, Del(x)
      PROVE  r \in base /\ stat[r] = "NORMAL_ROW" /\ data'[r] = data[r]
  BY <1>a, <1>5 DEF Del, files, TypeOK
<1>6. CASE UNCHANGED vars
  BY <1>6 DEF vars
<1> QED
  BY <1>1, <1>2, <1>3, <1>4, <1>5, <1>6 DEF Next

\* set_reverse_index accounts for every foreign key of the tables it walks.
LEMMA WalkAccountsForAll ==
    ASSUME TypeOK, TypeOK', NEW m \in Modes, NEW stop \in 0 .. TableNum,
           InitData(m[1], m[2], stop),
           NEW r \in base, Home[r] \in hasRev', Home[r] \notin hasRev,
           NEW c \in ForeignKeys(r)
    PROVE  \/ \E n \in Row : <<c, r>> \in rev'[n]
           \/ <<Home[r], data[r][KeyColumn]>> \in incomplete'
<1> DEFINE unlinked == Loaded(stop) \ hasRev
<1>1. /\ hasRev' = Loaded(stop)
      /\ rev' = [n \in Row |-> rev[n] \union EntriesFor(n, unlinked, hash')]
      /\ incomplete' = incomplete \union Unresolved(unlinked, hash')
  BY DEF InitData
<1>2. Home[r] \in unlinked /\ r \in Row /\ data[r] # None
  BY <1>1 DEF TypeOK
<1> DEFINE n == hash'[Foreign[Home[r]][c]][data[r][c]]
<1>3. n \in Row \union {None}
  BY <1>2, ForeignKeyColumns, ForeignKeyValue DEF TypeOK
<1>4. CASE n = None
  BY <1>1, <1>2, <1>4 DEF Unresolved
<1>5. CASE n \in Row
  <2>1. <<c, r>> \in Column \X base
    BY <1>2, ForeignKeyColumns
  <2>2. <<c, r>> \in EntriesFor(n, unlinked, hash')
    BY <1>2, <2>1 DEF EntriesFor
  <2> QED
    BY <1>1, <1>5, <2>2
<1> QED
  BY <1>3, <1>4, <1>5

THEOREM IndexedStep ==
    TypeOK /\ IndexedOrIncomplete /\ [Next]_vars => IndexedOrIncomplete'
<1> SUFFICES ASSUME TypeOK, IndexedOrIncomplete, [Next]_vars,
                    NEW r \in base', Home[r] \in hasRev', stat'[r] = "NORMAL_ROW",
                    NEW c \in ForeignKeys(r)
             PROVE  \/ \E n \in Row : <<c, r>> \in rev'[n]
                    \/ <<Home[r], data'[r][KeyColumn]>> \in incomplete'
  BY DEF IndexedOrIncomplete, ForeignKeys
<1>1. CASE Home[r] \in hasRev
  <2>1. r \in base /\ stat[r] = "NORMAL_ROW" /\ data'[r] = data[r]
    BY <1>1, UnchangedRow
  <2>2. incomplete \subseteq incomplete'
    BY DEF Next, DaoInit, InitData, Add, SetColumn, Del, vars
  <2>3. ASSUME NEW n \in Row, <<c, r>> \in rev[n]
        PROVE  <<c, r>> \in rev'[n]
    BY <2>3, EntryKept
  <2> QED
    BY <1>1, <2>1, <2>2, <2>3 DEF IndexedOrIncomplete
<1>2. CASE Home[r] \notin hasRev
  <2>1. PICK m \in Modes, stop \in 0 .. TableNum : InitData(m[1], m[2], stop)
    BY <1>2 DEF Next, DaoInit, Add, SetColumn, Del, vars, loads
  <2>2. r \in base /\ data'[r] = data[r]
    BY <2>1 DEF InitData, files
  <2> QED
    BY <1>2, <2>1, <2>2, TypeStep, WalkAccountsForAll
<1> QED
  BY <1>1, <1>2

\* In every reachable state each foreign key of an unchanged row, of a table whose
\* reverse index is built, has its entry or its row is known to be incomplete.
THEOREM IndexedCorrect == Spec => []IndexedOrIncomplete
<1>1. Init => IndexedOrIncomplete
  BY DEF Init, IndexedOrIncomplete
<1> QED
  BY <1>1, IndexedStep, TypeInit, TypeStep, PTL DEF Spec

-----------------------------------------------------------------------------
(* Rows that unchanged rows refer to                                       *)

\* With one DAO that fills every table, a single call of init_data gives all the
\* tables their data, unless it failed.
LoadedOnce == (stuck = {} /\ hasData # {}) => hasData = path

OneDao == DaoLoads = {Table}

LEMMA LoadedOnceStep ==
    ASSUME OneDao
    PROVE  TypeOK /\ LoadedOnce /\ [Next]_vars => LoadedOnce'
<1> SUFFICES ASSUME TypeOK, LoadedOnce, [Next]_vars PROVE LoadedOnce'
  OBVIOUS
<1>1. ASSUME NEW S \in DaoLoads, DaoInit(S)
      PROVE  LoadedOnce'
  <2>1. S = Table
    BY DEF OneDao
  <2>2. hasData = {}
    BY <1>1, <2>1 DEF DaoInit, TypeOK
  <2> QED
    BY <1>1, <2>2 DEF DaoInit, LoadedOnce, loads
<1>2. ASSUME NEW m \in Modes, NEW stop \in 0 .. TableNum, InitData(m[1], m[2], stop)
      PROVE  LoadedOnce'
  <2>1. /\ hasData' = Loaded(stop) /\ path' = path
        /\ stuck' = {stop} \intersect Table
        /\ stop \in (path \ hasData) \union {TableNum}
    BY <1>2 DEF InitData, files
  <2>2. stop # TableNum => stop \in Table
    BY TableAssumption DEF Table
  <2>3. stop = TableNum => Loaded(stop) = path
    BY <2>1, LoadedTables
  <2> QED
    BY <2>1, <2>2, <2>3 DEF LoadedOnce
<1>3. ASSUME UNCHANGED <<files, loads>>
      PROVE  LoadedOnce'
  BY <1>3 DEF LoadedOnce, files, loads
<1> QED
  BY <1>1, <1>2, <1>3 DEF Next, Add, SetColumn, Del, vars, files, loads

LEMMA NormalProtectedStep ==
    ASSUME DefaultArguments
    PROVE  TypeOK /\ LoadOrder /\ LoadedOnce /\ NormalProtected /\ [Next]_vars
               => NormalProtected'
<1> SUFFICES ASSUME TypeOK, LoadOrder, LoadedOnce, NormalProtected, [Next]_vars,
                    NEW n \in Row, NEW e \in rev'[n], stat'[e[2]] = "NORMAL_ROW"
             PROVE  stat'[n] # "DELETE_ROW"
  BY DEF NormalProtected
<1>a. e[2] \in Row
  BY TypeStep DEF TypeOK
<1>b. e \in rev[n] /\ stat[e[2]] = "NORMAL_ROW" => stat[n] # "DELETE_ROW"
  BY DEF NormalProtected
<1>1. ASSUME NEW S \in DaoLoads, DaoInit(S)
      PROVE  stat'[n] # "DELETE_ROW"
  BY <1>b, <1>1 DEF DaoInit
<1>2. ASSUME NEW m \in Modes, NEW stop \in 0 .. TableNum, InitData(m[1], m[2], stop)
      PROVE  stat'[n] # "DELETE_ROW"
  <2>1. stat' = stat /\ stuck = {} /\ stop \in (path \ hasData) \union {TableNum}
    BY <1>2 DEF InitData
  <2>2. CASE e \notin rev[n]
    <3>1. Home[e[2]] \in Loaded(stop) \ hasRev
      BY <1>2, <2>2, InitDataEntries
    <3>2. hasData = {}
      BY <2>1, <3>1, LoadedTables DEF LoadOrder, LoadedOnce
    <3> QED
      BY <2>1, <3>2 DEF LoadOrder
  <2> QED
    BY <1>b, <2>1, <2>2
<1>3. ASSUME NEW t \in Table, Add(t)
      PROVE  stat'[n] # "DELETE_ROW"
  <2>1. PICK r \in Row : stat' = [stat EXCEPT ![r] = "UPDATE_ROW"]
    BY <1>3 DEF Add
  <2> QED
    BY <1>a, <1>b, <1>3, <2>1 DEF Add, TypeOK
<1>4. ASSUME NEW x \in Row, NEW c \in Column, NEW v \in Value, SetColumn(x, c, v)
      PROVE  stat'[n] # "DELETE_ROW"
  <2>1. stat' = [stat EXCEPT ![x] = "UPDATE_ROW"]
    BY <1>4 DEF SetColumn
  <2>2. e[2] # x /\ stat[e[2]] = "NORMAL_ROW"
    BY <1>a, <2>1 DEF TypeOK
  <2>3. e \in rev[n]
    <3>1. CASE c \in ForeignKeys(x)
      <4>1. e = <<c, x>> \/ e \in rev[n]
        BY <1>4, <3>1, SetColumnEntries
      <4> QED
        BY <2>2, <4>1
    <3>2. CASE c \notin ForeignKeys(x)
      BY <1>4, <3>2 DEF SetColumn
    <3> QED
      BY <3>1, <3>2
  <2> QED
    BY <1>b, <2>1, <2>2, <2>3 DEF TypeOK
<1>5. ASSUME NEW x \in Row, Del(x)
      PROVE  stat'[n] # "DELETE_ROW"
  <2>1. rev[x] = {} /\ e \in rev[n]
    BY <1>5 DEF Del, Referenced, DelReverse
  <2> QED
    BY <1>a, <1>b, <1>5, <2>1 DEF Del, TypeOK
<1>6. CASE UNCHANGED vars
  BY <1>b, <1>6 DEF vars
<1> QED
  BY <1>1, <1>2, <1>3, <1>4, <1>5, <1>6 DEF Next

\* With one DAO and init_data's default arguments, a row that an unchanged row of a
\* file refers to through the reverse index is not deleted in any reachable state.
THEOREM NormalProtectedCorrect ==
    ASSUME DefaultArguments, OneDao
    PROVE  Spec => []NormalProtected
<1>1. Init => LoadedOnce /\ NormalProtected
  BY DEF Init, LoadedOnce, NormalProtected
<1> QED
  BY <1>1, NormalProtectedStep, LoadedOnceStep, LoadOrderInit, LoadOrderStep,
     TypeInit, TypeStep, PTL
  DEF Spec
=============================================================================
