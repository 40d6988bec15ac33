--------------------------- MODULE SchemaManager ---------------------------
(***************************************************************************)
(* SchemaManager::init: the table files are listed, each one is read into  *)
(* the next TableSchema of an array, and every foreign key is entered at   *)
(* the table it refers to (storage/schema_manager.cpp,                     *)
(* storage/table_schema.cpp).                                              *)
(*                                                                         *)
(* The files of a deployment are conf.  A client calls init again after a  *)
(* call that failed, perhaps with the files corrected.                     *)
(***************************************************************************)
EXTENDS FileManager

CONSTANTS
    TableNum,    \* the table_num init is called with
    Confs,       \* what the table files may hold: functions from TableFile
    Bad,         \* a file that conf.load refuses
    None,        \* a TableSchema that was not initialized
    MaxAttempts  \* bound: calls of init

Table == 0 .. TableNum - 1

\* A schema as a file gives it: table_id_ and the <<column, table>> of foreign_key_.
Schema == [id : Nat, foreign : Seq(Nat \X Nat)]

ASSUME SchemaAssumption ==
    /\ TableNum \in Nat \ {0}
    /\ Confs \subseteq [TableFile -> Schema \union {Bad}]
    /\ Bad # None

VARIABLES
    conf,      \* the files' contents
    attempts,  \* calls of init so far
    count,     \* test_table_num
    ret,       \* ret, whether a file could not be read
    schema,    \* table_schema_array_
    refs,      \* refs[i]: index_table_array of the i-th, <<table_id, column_id>>
    overrun    \* an entry beyond the array was written

schemas == <<attempts, count, ret, schema, refs, overrun>>
svars == <<pc, index, listing, conf, schemas>>

SInit ==
    /\ ListInit
    /\ pc = "idle"
    /\ conf \in Confs
    /\ attempts = 0 /\ count = 0 /\ ret = FALSE
    /\ schema = [i \in Table |-> None]
    /\ refs = [i \in Table |-> <<>>]
    /\ overrun = FALSE

\* init up to ls_dir; the array is a new one.
BeginInit ==
    /\ pc \in {"idle", "failed"}
    /\ attempts < MaxAttempts
    /\ attempts' = attempts + 1
    /\ BeginListing
    /\ count' = 0 /\ ret' = FALSE
    /\ schema' = [i \in Table |-> None]
    /\ refs' = [i \in Table |-> <<>>]
    /\ UNCHANGED <<index, conf, overrun>>

\* One turn of the while loop: conf.load and TableSchema::init of the next one.
LoadFileSkips ==    \* mutant: get_next advances index_ once more
    /\ pc = "listed" /\ ~ret /\ NextFile # 0
    /\ index' = NextFile + 1
    /\ IF conf[files[NextFile]] = Bad
       THEN ret' = TRUE /\ UNCHANGED <<count, schema, overrun>>
       ELSE /\ count' = count + 1
            /\ schema' = [i \in Table |-> IF i = count THEN conf[files[NextFile]]
                                          ELSE schema[i]]
            /\ overrun' = (overrun \/ count >= TableNum)
            /\ UNCHANGED ret
    /\ UNCHANGED <<pc, listing, conf, attempts, refs>>
LoadFile ==
    /\ pc = "listed" /\ ~ret /\ NextFile # 0
    /\ index' = NextFile
    /\ IF conf[files[NextFile]] = Bad
       THEN ret' = TRUE /\ UNCHANGED <<count, schema, overrun>>
       ELSE /\ count' = count + 1
            /\ schema' = [i \in Table |-> IF i = count THEN conf[files[NextFile]]
                                          ELSE schema[i]]
            /\ overrun' = (overrun \/ count >= TableNum)
            /\ UNCHANGED ret
    /\ UNCHANGED <<pc, listing, conf, attempts, refs>>

\* The foreign keys in the order of set_foreign_key_ref: the table's id, the
\* column and the table it refers to.
ForeignKeys ==
    LET keys == UNION {{i} \X DOMAIN schema[i].foreign : i \in Table}
        order == Arranged(keys, {p \in keys \X keys :
            p[1][1] < p[2][1] \/ (p[1][1] = p[2][1] /\ p[1][2] < p[2][2])})
    IN  [n \in DOMAIN order |->
            LET key == schema[order[n][1]].foreign[order[n][2]] IN
            <<schema[order[n][1]].id, key[1], key[2]>>]

\* set_foreign_key_ref: add_reverse_index at the entry of the array that the id
\* of the table referred to names.
RefsOnce ==    \* mutant: one entry for a table, whatever its foreign keys
    [i \in Table |->
        SetToSeq({<<k[1], k[2]>> : k \in {x \in ToSet(ForeignKeys) :
            /\ x[3] = i
            /\ \A y \in ToSet(ForeignKeys) : (y[1] = x[1] /\ y[3] = i) => y[2] >= x[2]}})]
Refs ==
    LET keys == ForeignKeys
        after[n \in 0 .. Len(keys)] ==
            IF n = 0 THEN [i \in Table |-> <<>>]
            ELSE [i \in Table |->
                    IF i = keys[n][3] THEN Append(after[n - 1][i], <<keys[n][1], keys[n][2]>>)
                    ELSE after[n - 1][i]]
    IN  after[Len(keys)]

\* The end of init: the cursor is reset, and what was read is judged.
EndInit ==
    /\ pc = "listed"
    /\ ret \/ NextFile = 0
    /\ index' = 0
    /\ IF ret \/ files = <<>> \/ count # TableNum
       THEN pc' = "failed" /\ UNCHANGED <<refs, overrun>>
       ELSE /\ pc' = "ready"
            /\ refs' = Refs
            /\ overrun' = (overrun \/ \E k \in ToSet(ForeignKeys) : k[3] \notin Table)
    /\ UNCHANGED <<listing, conf, attempts, count, ret, schema>>

\* The files are corrected before init is called again.
Correct ==
    /\ pc = "failed"
    /\ conf' \in Confs
    /\ UNCHANGED <<pc, index, listing, schemas>>

SNext == (Listing /\ UNCHANGED <<conf, schemas>>)
         \/ BeginInit \/ LoadFile \/ EndInit \/ Correct

-----------------------------------------------------------------------------
(* What init promises                                                      *)

\* The table files that a listing comes to.
Reachable == TableFile \intersect UNION {tree[d] : d \in Visited}

\* A first call that succeeds has read every table file once, in the order of
\* paths, into an array they fill, unless the listing met its limit: array index
\* and file agree, which every later look-up by table id rests on.
SchemaComplete ==
    (pc = "ready" /\ attempts = 1 /\ ~Limit(Len(files))) =>
        /\ Cardinality(Reachable) = TableNum
        /\ \A f \in Reachable :
            schema[Cardinality({x \in Reachable : x < f})] = conf[f]

\* Once init has succeeded each foreign key of each schema is entered once at the
\* table it refers to, and nothing else is: references can be followed both ways.
RefsMirrored ==
    (pc = "ready" /\ ~overrun) =>
        LET Keys(t) == {k \in UNION {{i} \X DOMAIN schema[i].foreign : i \in Table} :
                            schema[k[1]].foreign[k[2]][2] = t}
        IN  \A t \in Table :
                /\ Len(refs[t]) = Cardinality(Keys(t))
                /\ ToSet(refs[t]) =
                    {<<schema[k[1]].id, schema[k[1]].foreign[k[2]][1]>> : k \in Keys(t)}
=============================================================================
