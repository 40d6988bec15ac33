------------------------------- MODULE DaoSave -------------------------------
(***************************************************************************)
(* The save() of the SQL DAOs, statement by statement (dao/sqlite_dao.cpp; *)
(* mysql_dao.cpp and pg_dao.cpp have the same loop): every changed row of  *)
(* every table is deleted and, unless it was deleted in memory, inserted   *)
(* again, in a transaction if one could be had.  The database is external: *)
(* the start of the transaction, any statement and the commit may fail,    *)
(* and the process may crash.                                              *)
(*                                                                         *)
(* save() takes no other step of its process into account: the client      *)
(* changes rows between two calls, not during one.                         *)
(***************************************************************************)
EXTENDS Integers, Sequences, SequencesExt, FiniteSetsExt

CONSTANTS
    Table, HasData, Key, Val, None,   \* as in AtomicSave
    MaxRows,           \* bound: MaxRows[t] rows of table t in memory
    OpenAfterFailure   \* a failed commit leaves the transaction open (SQLite)

ASSUME SaveAssumption ==
    /\ Table \subseteq Nat
    /\ HasData \subseteq Table
    /\ None \notin Val

\* The tables are an array of a schema's length, and a database holds finitely
\* many rows.
ASSUME DatabaseAssumption ==
    /\ \E t \in Table : \A u \in Table : u <= t
    /\ IsFiniteSet(Key)
    /\ OpenAfterFailure \in BOOLEAN

VARIABLES
    array,   \* row_index_array_ of each table: the rows of its file
    deque,   \* insert_deque_ of each table: the rows added since
    db,      \* db[t][k]: the committed row of key k
    pc,      \* "idle", or where save() is: "rows", "insert" (between the two
             \* statements of a row) or "end"
    at,      \* the table and the index_ that the loops have come to
    ret,     \* ret, whether a statement of this save failed
    msg,     \* error_msg_: whether it holds a message
    open,    \* the connection has a transaction open
    tx       \* the database as the connection sees it

vars == <<array, deque, db, pc, at, ret, msg, open, tx>>
rows == <<array, deque>>

MemRow == [key : Key, val : Val, stat : {"NORMAL_ROW", "UPDATE_ROW", "DELETE_ROW"}]

\* The rows of all tables, in the order in which they are numbered.
mem == [t \in Table |-> array[t] \o deque[t]]

Atomic == INSTANCE AtomicSave

\* The place past the last table.  Between saves at and ret have no counterpart in
\* the code: they are left where they are, or put back where they were.
Past == <<Max(Table) + 1, 0>>

TypeOK ==
    /\ array \in [Table -> Seq(MemRow)] /\ deque \in [Table -> Seq(MemRow)]
    /\ db \in [Table -> [Key -> Val \union {None}]]
    /\ pc \in {"idle", "rows", "insert", "end"}
    /\ at \in (HasData \union {Max(Table) + 1}) \X Nat
    /\ ret \in BOOLEAN /\ msg \in BOOLEAN /\ open \in BOOLEAN
    /\ tx \in [Table -> [Key -> Val \union {None}]]
    /\ ~open => tx = db

\* The rows that init and init_data load: those of the database, unchanged, for each
\* table that gets data.
Stored(d, t) ==
    {[key |-> k, val |-> d[t][k], stat |-> "NORMAL_ROW"] :
        k \in {x \in Key : t \in HasData /\ d[t][x] # None}}
Reloaded(d) == [t \in Table |-> SetToSeq(Stored(d, t))]

Init ==
    /\ db \in [Table -> [Key -> Val \union {None}]]
    /\ array = Reloaded(db) /\ deque = [t \in Table |-> <<>>]
    /\ pc = "idle" /\ at = Past /\ ret = FALSE
    /\ msg = FALSE
    /\ open = FALSE /\ tx = db

-----------------------------------------------------------------------------
(* The client, between two saves                                           *)

Edit == pc = "idle" /\ UNCHANGED <<db, pc, at, ret, msg, open, tx>>

\* add() and the set_column_data calls that give the row its key and values.
AddRow(t, k, v) ==
    /\ Edit
    /\ Len(array[t]) + Len(deque[t]) < MaxRows[t]
    /\ deque' = [deque EXCEPT ![t] = Append(@, [key |-> k, val |-> v, stat |-> "UPDATE_ROW"])]
    /\ UNCHANGED array

\* A row of a file, or an added one, becomes row; its key is never changed.
Replace(t, i, row) ==
    \/ /\ i <= Len(array[t])
       /\ array' = [array EXCEPT ![t] = [@ EXCEPT ![i] = row]]
       /\ UNCHANGED deque
    \/ /\ i > Len(array[t])
       /\ deque' = [deque EXCEPT ![t] = [@ EXCEPT ![i - Len(array[t])] = row]]
       /\ UNCHANGED array

\* set_column_data of a column other than the key.
ChangeRow(t, i, v) ==
    /\ Edit
    /\ Replace(t, i, [mem[t][i] EXCEPT !.val = v, !.stat = "UPDATE_ROW"])

\* del() of a row nothing refers to.
DeleteRow(t, i) ==
    /\ Edit
    /\ Replace(t, i, [mem[t][i] EXCEPT !.stat = "DELETE_ROW"])

-----------------------------------------------------------------------------
(* The loops of save()                                                     *)

\* The first table with data after t.
NextTableAny(t) == t + 1    \* mutant: has_data() is not asked
NextTable(t) == LET later == {x \in HasData : x > t} IN
                IF later = {} THEN Max(Table) + 1 ELSE Min(later)

\* get_next: as long as index_ is below row_num a row of the array, then one of the
\* deque, and past both ITERATOR_END, with index_ back at 0.
MoreInFile(t, index) == index < Len(array[t])    \* mutant: the added rows are left out
More(t, index) == index < Len(array[t]) \/ index - Len(array[t]) < Len(deque[t])
RowAt(t, index) ==
    IF index < Len(array[t]) THEN array[t][index + 1]
    ELSE deque[t][index - Len(array[t]) + 1]
NextRowStuck(t, index) == <<t, index>>    \* mutant: index_ is not advanced
NextRow(t, index) == <<t, index + 1>>

\* The loop has come to a row, and to this one.
AtRow == at[1] \in HasData /\ More(at[1], at[2])
Row == RowAt(at[1], at[2])

\* start_transaction(), whose result is not looked at: it fails within an open
\* transaction, which goes on, and where it fails with none open each statement
\* will commit by itself.
Begin ==
    /\ pc = "idle" /\ pc' = "rows"
    /\ at' = <<NextTable(-1), 0>>
    /\ ret' = FALSE
    /\ open' \in {open, TRUE}
    /\ UNCHANGED <<rows, db, msg, tx>>

\* The iterator of a table is at its end: the next table with data, if any.
EndOfTable ==
    /\ pc = "rows" /\ ~AtRow
    /\ \/ /\ at[1] \in HasData
          /\ at' = <<NextTable(at[1]), 0>>
          /\ UNCHANGED pc
       \/ /\ at[1] > Max(Table)
          /\ pc' = "end"
          /\ UNCHANGED at
    /\ UNCHANGED <<rows, db, ret, msg, open, tx>>

\* A turn for a row that was not changed.
SkipRow ==
    /\ pc = "rows" /\ AtRow /\ Row.stat = "NORMAL_ROW"
    /\ at' = NextRow(at[1], at[2])
    /\ UNCHANGED <<rows, db, pc, ret, msg, open, tx>>

-----------------------------------------------------------------------------
(* The statements                                                          *)

\* A statement that succeeds makes d of what the connection sees.
ExecuteAlone(d) == tx' = d /\ db' = d    \* mutant: statements outside the transaction
Execute(d) ==
    /\ tx' = d
    /\ db' = IF open THEN db ELSE d

DeletesAny(row) == TRUE    \* mutant: unchanged rows are deleted too
Deletes(row) == row.stat \in {"DELETE_ROW", "UPDATE_ROW"}

\* delete_data, the only statement for a deleted row and the first for a changed one.
DeleteData ==
    /\ pc = "rows" /\ AtRow /\ Deletes(Row)
    /\ Execute([tx EXCEPT ![at[1]][Row.key] = None])
    /\ \/ /\ Row.stat = "UPDATE_ROW"
          /\ pc' = "insert" /\ UNCHANGED at
       \/ /\ Row.stat # "UPDATE_ROW"
          /\ at' = NextRow(at[1], at[2]) /\ UNCHANGED pc
    /\ UNCHANGED <<rows, ret, msg, open>>

\* insert_data, after the delete of a changed row.
InsertData ==
    /\ pc = "insert" /\ pc' = "rows"
    /\ Execute([tx EXCEPT ![at[1]][Row.key] = Row.val])
    /\ at' = NextRow(at[1], at[2])
    /\ UNCHANGED <<rows, ret, msg, open>>

FailForgotten ==    \* mutant: a later statement's success hides the failure
    /\ (pc = "rows" /\ AtRow /\ Deletes(Row)) \/ pc = "insert"
    /\ pc' = "rows"
    /\ at' = NextRow(at[1], at[2])
    /\ UNCHANGED <<rows, db, ret, msg, open, tx>>

\* The delete or the insert fails: no statement follows, whatever tables are left.
Fail ==
    /\ (pc = "rows" /\ AtRow /\ Deletes(Row)) \/ pc = "insert"
    /\ pc' = "end"
    /\ ret' = TRUE
    /\ UNCHANGED <<rows, db, at, msg, open, tx>>

\* commit(), whose result is not looked at either; with no transaction open there is
\* nothing to commit and it fails.
Commit ==
    /\ pc = "end" /\ ~ret
    /\ pc' = "idle"
    /\ \/ db' = tx /\ open' = FALSE /\ UNCHANGED tx
       \/ /\ UNCHANGED db
          /\ open' = (open /\ OpenAfterFailure)
          /\ tx' = IF open' THEN tx ELSE db
    /\ UNCHANGED <<rows, at, ret, msg>>

\* The error path: the message is kept, and the transaction, if there is one, rolled
\* back.
RollBack ==
    /\ pc = "end" /\ ret
    /\ pc' = "idle"
    /\ at' = Past /\ ret' = FALSE
    /\ msg' = TRUE
    /\ open' = FALSE /\ tx' = db
    /\ UNCHANGED <<rows, db>>

\* The process ends, in a save or between two, and another loads the database.
Crash ==
    /\ pc' = "idle"
    /\ array' = Reloaded(db) /\ deque' = [t \in Table |-> <<>>]
    /\ at' = Past /\ ret' = FALSE
    /\ msg' = FALSE
    /\ open' = FALSE /\ tx' = db
    /\ UNCHANGED db

SaveStep == EndOfTable \/ SkipRow \/ DeleteData \/ InsertData \/ Fail \/ Commit \/ RollBack

Next ==
    \/ \E t \in Table, k \in Key, v \in Val : AddRow(t, k, v)
    \/ \E t \in Table : \E i \in DOMAIN mem[t] :
        (\E v \in Val : ChangeRow(t, i, v)) \/ DeleteRow(t, i)
    \/ Begin
    \/ SaveStep
    \/ Crash

Spec == Init /\ [][Next]_vars

\* save() runs to its end in its caller's thread.
FairSpec == Spec /\ WF_vars(SaveStep)

-----------------------------------------------------------------------------
(* What a save does                                                        *)

\* A save that has a transaction is atomic: whatever statement fails, whether the
\* commit succeeds, and wherever the process crashes, the database has all the
\* changes in memory or none of them, also when the save continues a transaction
\* that an earlier failed commit left open. A save whose start_transaction failed
\* with none open is not: its statements count one by one, and a failure or a
\* crash leaves those before it done, the delete of a row without its insert
\* among them.
SaveIsAtomic == Atomic!ASpec

\* When no statement failed, every change in memory was sent: for each key the last
\* of its changed rows, of the file or added, is what the connection sees, with or
\* without a transaction, when save() comes to commit.
AllSent == pc = "end" /\ ~ret => tx = Atomic!Applied(mem, tx)

\* The values of the rows in memory with key k.
Values(m, t, k) == {m[t][i].val : i \in {j \in DOMAIN m[t] : m[t][j].key = k}}

\* For a key that no row in memory was changed for, memory and the database
\* agree in every table with data: no save, failed or not, in a transaction or not,
\* touches the stored row of a key whose row in memory is unchanged.
Agreement ==
    \A t \in HasData, k \in Key :
        Atomic!Touched(mem, t, k) = {} => Values(mem, t, k) = {db[t][k]} \ {None}

\* A save that was begun comes to its end: the loop over tables and rows, with the
\* iterator over the rows of the file and then the added ones, terminates, with a
\* transaction or without, whatever fails.
SaveReturns == pc # "idle" ~> pc = "idle"
=============================================================================
