----------------------------- MODULE ConfManager -----------------------------
(***************************************************************************)
(* The configuration manager (common/conf_manager.cpp): tables of a MySQL  *)
(* database, loaded on first use and kept in three parallel arrays.        *)
(* Threads look tables up under a mutex; update_table loads a table anew,  *)
(* clear gives up the tables that were replaced, and both of them, like    *)
(* clear_all, go without the mutex.                                        *)
(*                                                                         *)
(* A step is an access to one array, clear and clear_all are one each: a   *)
(* push_back is taken as one step also where nothing keeps two threads     *)
(* from it, and an index beyond an array that was emptied meanwhile as one *)
(* that does nothing, which leaves out the worst the data race can do.     *)
(* The database is external and may fail.  Positions in the arrays are     *)
(* counted from 1.                                                         *)
(***************************************************************************)
EXTENDS Integers, Sequences, FiniteSets

CONSTANTS
    Thread,
    Name,        \* table names
    None,        \* no thread
    NoName,      \* the empty name of a replaced table
    Failures,    \* what may fail: "connect", "query", "result" (mysql_store_result)
    Quiet,       \* the calls among those without mutex that clients make only while
                 \* no other thread is in a call, and during which they enter none
    MaxTables,   \* bound: entries of table_name_array_
    MaxOld       \* bound: entries of old_table_array_

\* The calls that take no mutex.
Unlocked == {"update_table", "clear", "clear_all"}

ASSUME ConfAssumption ==
    /\ None \notin Thread /\ NoName \notin Name
    /\ Failures \subseteq {"connect", "query", "result"}
    /\ Quiet \subseteq Unlocked
    /\ MaxTables \in Nat /\ MaxOld \in Nat

VARIABLES
    names,     \* table_name_array_
    schemas,   \* table_schema_array_: the name of the table whose columns it has
    tables,    \* table_array_
    old,       \* old_table_array_
    lock,      \* the holder of table_mutex_
    pc,        \* where each thread is
    job,       \* what its call is about
    given,     \* history: the <<name, index>> that get_table returned 0 with
    failed     \* history: whether a query failed since the arrays were empty

vars == <<names, schemas, tables, old, lock, pc, job, given, failed>>
history == <<given, failed>>
arrays == <<names, schemas, tables, old>>

\* What a load leaves in table_array_: rows, no rows, or what clear leaves.
TableData == [name : Name, rows : {"loaded", "missing", "cleared"}]

Place == {"idle", "search", "replace", "connect", "query", "store", "return"}
Job == [call : {"get_table", "update_table"}, name : Name,
        replaces : Nat,    \* index, in update_table
        ret : {0, 1},      \* whether a step failed
        rows : {"loaded", "missing"}]

TypeOK ==
    /\ names \in Seq(Name \union {NoName})
    /\ schemas \in Seq(Name)
    /\ tables \in Seq(TableData)
    /\ old \in Seq(Nat \ {0})
    /\ pc \in [Thread -> Place]
    /\ DOMAIN job = Thread
    /\ \A t \in Thread : pc[t] # "idle" => job[t] \in Job
    /\ lock \in Thread \union {None}
    /\ \A t \in Thread :
        (t = lock) <=> (pc[t] # "idle" /\ job[t].call = "get_table")
    /\ \A t \in Thread :
        pc[t] = "replace" => job[t].call = "update_table" /\ job[t].replaces # 0
    /\ given \subseteq Name \X (Nat \ {0})
    /\ failed \in BOOLEAN

Init ==
    /\ names = <<>> /\ schemas = <<>> /\ tables = <<>> /\ old = <<>>
    /\ lock = None
    /\ pc = [t \in Thread |-> "idle"]
    /\ job = [t \in Thread |-> None]
    /\ given = {}
    /\ failed = FALSE

-----------------------------------------------------------------------------

Busy == {t \in Thread : pc[t] # "idle"}
Alone(call) == call \in Quiet => Busy = {}
NoUpdate == \A t \in Busy : job[t].call # "update_table"
Room == Len(names) + Cardinality(Busy) < MaxTables

\* The first entry with a name, if there is one.
Entries(n) == {i \in DOMAIN names : names[i] = n}
First(n) == CHOOSE i \in Entries(n) : \A j \in Entries(n) : i <= j

Start(t, call, n, i) ==
    job' = [job EXCEPT ![t] = [call |-> call, name |-> n, replaces |-> i, ret |-> 0,
                               rows |-> "missing"]]

\* The end of a call; between calls job has no counterpart in the code.
UnlockForgotten(t) == UNCHANGED lock                       \* mutant
Unlock(t) == lock' = IF lock = t THEN None ELSE lock
Leave(t) ==
    /\ pc' = [pc EXCEPT ![t] = "idle"]
    /\ job' = [job EXCEPT ![t] = None]
    /\ Unlock(t)

\* get_table, up to the lock.
AcquireNothing(t) == lock' = t    \* mutant: no lock is waited for
Acquire(t) == lock = None /\ lock' = t
get_table(t, n) ==
    /\ pc[t] = "idle"
    /\ "update_table" \in Quiet => NoUpdate
    /\ Room
    /\ Acquire(t)
    /\ Start(t, "get_table", n, 0)
    /\ pc' = [pc EXCEPT ![t] = "search"]
    /\ UNCHANGED <<arrays, history>>

\* Its search among the names: a name that is there is the table.
Found(t) ==
    LET n == job[t].name IN
    /\ pc[t] = "search"
    /\ Entries(n) # {}
    /\ given' = given \union {<<n, First(n)>>}
    /\ Leave(t)
    /\ UNCHANGED <<arrays, failed>>

NotFound(t) ==
    /\ pc[t] = "search"
    /\ Entries(job[t].name) = {}
    /\ pc' = [pc EXCEPT ![t] = "connect"]
    /\ UNCHANGED <<arrays, lock, job, history>>

\* update_table searches without the mutex.  A name that is not there is no error and
\* nothing happens.
update_table(t, n) ==
    /\ pc[t] = "idle"
    /\ Alone("update_table") /\ Room /\ Len(old) + Cardinality(Busy) < MaxOld
    /\ Entries(n) # {}
    /\ Start(t, "update_table", n, First(n))
    /\ pc' = [pc EXCEPT ![t] = "replace"]
    /\ UNCHANGED <<arrays, lock, history>>

\* The entry counts as old before the new one is loaded.
Replace(t) ==
    /\ pc[t] = "replace"
    /\ old' = Append(old, job[t].replaces)
    /\ pc' = [pc EXCEPT ![t] = "connect"]
    /\ UNCHANGED <<names, schemas, tables, lock, job, history>>

-----------------------------------------------------------------------------
(* load_new_table and do_sql, for both                                     *)

ConnectFails(t) ==
    /\ pc[t] = "connect"
    /\ "connect" \in Failures
    /\ Leave(t)
    /\ UNCHANGED <<arrays, history>>

Connect(t) ==
    /\ pc[t] = "connect"
    /\ names' = Append(names, job[t].name)
    /\ pc' = [pc EXCEPT ![t] = "query"]
    /\ UNCHANGED <<schemas, tables, old, lock, job, history>>

Query(t) ==
    /\ pc[t] = "query"
    /\ schemas' = Append(schemas, job[t].name)
    /\ job' = [job EXCEPT ![t].rows = "loaded"]
    /\ pc' = [pc EXCEPT ![t] = "store"]
    /\ UNCHANGED <<names, tables, old, lock, history>>

\* A query that fails is reported; a result that cannot be stored is not.
QueryFails(t) ==
    /\ pc[t] = "query"
    /\ \/ "query" \in Failures /\ job' = [job EXCEPT ![t].ret = 1]
       \/ "result" \in Failures /\ UNCHANGED job
    /\ pc' = [pc EXCEPT ![t] = "store"]
    /\ failed' = TRUE
    /\ UNCHANGED <<arrays, lock, given>>

\* The end of do_sql: the table is stored whether it was loaded or not.
Store(t) ==
    /\ pc[t] = "store"
    /\ tables' = Append(tables, [name |-> job[t].name, rows |-> job[t].rows])
    /\ pc' = [pc EXCEPT ![t] = "return"]
    /\ UNCHANGED <<names, schemas, old, lock, job, history>>

\* The index of a new table is read off the array's size; a table is given an index
\* only where there is one.
NewIndexPast == Len(tables) + 1    \* mutant
NewIndex == Len(tables)

ReturnTable(t) ==
    /\ pc[t] = "return" /\ job[t].call = "get_table"
    /\ given' = IF job[t].ret = 0 /\ NewIndex > 0
                THEN given \union {<<job[t].name, NewIndex>>} ELSE given
    /\ Leave(t)
    /\ UNCHANGED <<arrays, failed>>

\* The old entry loses its name.
ExpireNothing(i) == names    \* mutant
Expire(i) == [names EXCEPT ![i] = NoName]

ReturnUpdate(t) ==
    /\ pc[t] = "return" /\ job[t].call = "update_table"
    /\ names' = IF job[t].ret = 0 THEN Expire(job[t].replaces) ELSE names
    /\ Leave(t)
    /\ UNCHANGED <<schemas, tables, old, history>>

-----------------------------------------------------------------------------

clear ==
    /\ Alone("clear")
    /\ tables' = [i \in DOMAIN tables |->
                    IF \E j \in DOMAIN old : old[j] = i
                    THEN [tables[i] EXCEPT !.rows = "cleared"] ELSE tables[i]]
    /\ old' = <<>>
    /\ UNCHANGED <<names, schemas, lock, pc, job, history>>

\* After clear_all clients have no use for the handles they got before.
clear_all ==
    /\ Alone("clear_all")
    /\ names' = <<>> /\ schemas' = <<>> /\ tables' = <<>> /\ old' = <<>>
    /\ given' = {} /\ failed' = FALSE
    /\ UNCHANGED <<lock, pc, job>>

Next ==
    \/ \E t \in Thread :
        \/ \E n \in Name : get_table(t, n) \/ update_table(t, n)
        \/ Found(t) \/ NotFound(t) \/ Replace(t)
        \/ ConnectFails(t) \/ Connect(t) \/ Query(t) \/ QueryFails(t) \/ Store(t)
        \/ ReturnTable(t) \/ ReturnUpdate(t)
    \/ clear
    \/ clear_all

Spec == Init /\ [][Next]_vars

-----------------------------------------------------------------------------
(* What the arrays are relied on for                                       *)

\* While no load is under way, names and tables have an entry for each load, the
\* same one in the same position, and so have the columns until a query fails: an
\* index found by name is the index of that table's rows and columns, however the
\* threads' look-ups, refreshes and failed connections were mixed.
Aligned ==
    (\A t \in Busy : pc[t] \in {"search", "replace", "connect"}) =>
        /\ Len(names) = Len(tables)
        /\ \A i \in DOMAIN tables : names[i] \in {tables[i].name, NoName}
        /\ ~failed => schemas = [i \in DOMAIN tables |-> tables[i].name]

\* Every index that get_table returned still leads to the table that was asked for,
\* after any number of refreshes; until a query fails that table was loaded and
\* the columns at its index are its own.
HandleSound ==
    \A h \in given :
        /\ h[2] \in DOMAIN tables
        /\ tables[h[2]].name = h[1]
        /\ ~failed => /\ tables[h[2]].rows # "missing"
                      /\ h[2] \in DOMAIN schemas /\ schemas[h[2]] = h[1]

\* A refresh that returns 0, and what it is for: the table's name leads to the rows
\* just loaded and to no others.
Refreshes(t) ==
    pc[t] = "return" /\ pc'[t] = "idle" /\ job[t].call = "update_table" /\ job[t].ret = 0
LeadsToNew(t) ==
    LET n == job[t].name
        new == Len(tables) IN
    /\ tables[new] = [name |-> n, rows |-> "loaded"]
    /\ names'[new] = n
    /\ \A i \in 1 .. new - 1 : names'[i] # n

\* As long as no query has failed since the arrays were empty, a refresh that returns
\* 0 makes its name lead to the rows just loaded, also after refreshes of it that
\* could not connect. After one whose query failed it need not: that one's entry keeps
\* the name, and is found first once the old entry has lost it.
Refreshed == [][\A t \in Thread : (Refreshes(t) /\ ~failed) => LeadsToNew(t)]_vars

\* conf_manager.h:240 ("release expired array"): clear empties only tables that
\* were replaced, none whose name still leads to it.
ExpiredOnly ==
    \A i \in DOMAIN names \intersect DOMAIN tables :
        names[i] # NoName => tables[i].rows # "cleared"

\* conf_manager.cpp:400 ("if table has been loaded return loaded table"): what
\* get_table finds under a name is that table.
FoundByName ==
    [][\A t \in Thread :
        (pc[t] = "search" /\ pc'[t] = "idle") =>
            LET i == First(job[t].name) IN
            i \in DOMAIN tables /\ tables[i].name = job[t].name]_vars
=============================================================================
