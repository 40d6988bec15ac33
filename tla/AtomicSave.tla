----------------------------- MODULE AtomicSave -----------------------------
(***************************************************************************)
(* What the save() of a SQL DAO promises.  With a transaction open the     *)
(* database takes on all the changes made to the rows in memory in one     *)
(* step, or none of them.  With none, because start_transaction failed and *)
(* save() goes on regardless, each statement counts by itself, and all     *)
(* that is promised is that a statement is about a changed row.            *)
(***************************************************************************)
EXTENDS Integers, Sequences, FiniteSetsExt

CONSTANTS
    Table,     \* the tables of the schema
    HasData,   \* those with has_data_, the only ones save looks at
    Key,       \* row keys; a row saved has its key set, and it is not empty
    Val,       \* what else a row holds
    None       \* no such row

VARIABLES
    mem,   \* mem[t]: the rows of table t, those of its file and then the added ones
    db,    \* db[t][k]: the committed row of key k
    pc,    \* "idle", or save() is under way
    open   \* the connection has a transaction open

\* The rows of table t with key k that were changed since they were loaded.
Touched(m, t, k) ==
    {i \in DOMAIN m[t] : m[t][i].key = k /\ m[t][i].stat # "NORMAL_ROW"}

\* The database d after the changes of m: of the changed rows of one key the last
\* one counts.
Applied(m, d) ==
    [t \in Table |-> [k \in Key |->
        IF t \notin HasData \/ Touched(m, t, k) = {} THEN d[t][k]
        ELSE LET row == m[t][Max(Touched(m, t, k))] IN
             IF row.stat = "DELETE_ROW" THEN None ELSE row.val]]

\* The commit of a save, which ends both it and the transaction.
Save ==
    /\ pc # "idle" /\ open
    /\ db' = Applied(mem, db)
    /\ pc' = "idle" /\ open' = FALSE
    /\ UNCHANGED mem

\* A statement outside a transaction: the row of a changed key is deleted, or put
\* in with the values of a row in memory.
Statement ==
    /\ pc # "idle" /\ ~open
    /\ \E t \in HasData, k \in Key :
        /\ Touched(mem, t, k) # {}
        /\ \E v \in {None} \union {mem[t][i].val : i \in Touched(mem, t, k)} :
            db' = [db EXCEPT ![t][k] = v]
    /\ UNCHANGED mem

AInit == db \in [Table -> [Key -> Val \union {None}]]
ANext == UNCHANGED db \/ Save \/ Statement
ASpec == AInit /\ [][ANext]_<<mem, db, pc, open>>
=============================================================================
