------------------------------ MODULE JsonDao ------------------------------
(***************************************************************************)
(* JsonFileDao and JsonDao: the rows of one table (POI_TABLE_ID) kept as a *)
(* file of JSON lines (dao/json_file_dao.cpp, dao/json_dao.cpp), through   *)
(* processes that load the file, edit the rows, save them and die at any   *)
(* time.                                                                   *)
(*                                                                         *)
(* A row is a value: its columns' text.  Its line is the value it is read  *)
(* back as, Canon[r]: an INT or DOUBLE column is written as a number and   *)
(* read as that number's text.  stdio buffers what save writes, so a crash *)
(* keeps any prefix of it, and fgets' caller cuts the last character of a  *)
(* line whether or not it is its newline: a line that is not whole, ends   *)
(* without a newline or is blank does not parse and is Broken.             *)
(*                                                                         *)
(* Disks fill up and files cannot be opened: save looks at the result of   *)
(* fopen only before it closes the file, and never at those of fwrite and  *)
(* fclose.  The data file that a load of over MemoryRows lines prints for  *)
(* init_data is taken to be written; were it cut, init_data would fail at  *)
(* the row that is cut, as it does at a row of Shifted.                    *)
(***************************************************************************)
EXTENDS Arrangement, SequencesExt

CONSTANTS
    Row,         \* the contents a row may have
    Canon,       \* Canon[r]: what parse_row_to_json and write_json_to_* make of r
    Long,        \* the rows whose line is over the 10240 bytes of the buffer
    Spliced,     \* the rows that the beginning of a line and the end of a later one make
    Shifted,     \* the rows with a NUL in a string, which shifts the columns after it
    Broken,      \* a line that Json::Reader refuses
    None,        \* no data: row_data_ of a row never written, data_ of the table
    MemoryRows,  \* 1024: up to this many lines are converted in memory
    FirstFiles,  \* what the file may hold before the first process
    MaxRows      \* bound: rows in memory

\* A RowIndex: the row it has and its row_stat_.
MemRow == [val : Row \union {None}, stat : {"NORMAL_ROW", "UPDATE_ROW", "DELETE_ROW"}]

ASSUME CanonAssumption ==
    /\ Canon \in [Row -> Row]
    /\ \A r \in Row : Canon[Canon[r]] = Canon[r] /\ Canon[r] \notin Shifted
    /\ Long \subseteq Row /\ Shifted \subseteq Row /\ Spliced \subseteq Row
    /\ Broken \notin Row /\ None \notin Row \union {0, -1} \union Seq(MemRow)
ASSUME FileAssumption ==
    /\ FirstFiles \subseteq Seq(Row \union {Broken})
    /\ MemoryRows \in Nat /\ MaxRows \in Nat

VARIABLES
    pc,        \* "down", "up" or, between fopen and fclose of save, "writing"
    file,      \* the lines of the JSON file
    isInit,    \* is_init_ of both DAOs
    ret,       \* what the process's first init returned, or None
    given,     \* the rows behind data_ and row_num_ of the table, or None
    rows,      \* the RowIndex objects, or None before init_data
    json,      \* the lines save has not written yet
    gathered,  \* ghost: the lines of the last save, written or not
    complete,  \* ghost: that save got to fclose; of a first file, that it can be read
    torn,      \* ghost: a write of that save failed, in fwrite or in fclose
    owed,      \* ghost: rows saved, or in the first file, and not deleted since
    careless   \* ghost: a process died in save, saved though its load had failed, or
               \* ended a save of which a write failed

memory == <<isInit, ret, given, rows, json>>
ghosts == <<gathered, complete, torn, owed, careless>>
vars == <<pc, file, memory, ghosts>>

\* The lines that parse.
Whole(lines) ==
    LET at == Ascending({i \in DOMAIN lines : lines[i] # Broken})
    IN  [k \in DOMAIN at |-> lines[at[k]]]

\* A line over the buffer's length is read as two that do not parse.
ReadableWhole(lines) == \A i \in DOMAIN lines : lines[i] \in Row    \* mutant: any length
Readable(lines) == \A i \in DOMAIN lines : lines[i] \in Row \ Long

Cleared == /\ isInit' = FALSE /\ ret' = None
           /\ given' = None /\ rows' = None /\ json' = <<>>

Init ==
    /\ pc = "down"
    /\ file \in FirstFiles
    /\ isInit = FALSE /\ ret = None /\ given = None /\ rows = None /\ json = <<>>
    /\ gathered = [i \in DOMAIN Whole(file) |-> Canon[Whole(file)[i]]]
    /\ complete = Readable(file)
    /\ torn = FALSE
    /\ owed = ToSet(gathered)
    /\ careless = FALSE

Start ==
    /\ pc = "down"
    /\ pc' = "up"
    /\ UNCHANGED <<file, memory, ghosts>>

-----------------------------------------------------------------------------
(* Loading                                                                 *)

\* JsonFileDao::init and JsonDao::init.  Up to MemoryRows lines go to a block of
\* memory, more to the table's data file, if it can be opened.  The table gets
\* the rows once all are converted; is_init_ is set whatever happened.  Where the
\* JSON file cannot be opened, fgets is given NULL and the process ends: Crash.
Load(opens) == IF Readable(file) /\ (Len(file) <= MemoryRows \/ opens) THEN file ELSE None

InitDao(opens) ==
    /\ pc = "up" /\ rows = None
    /\ isInit' = TRUE
    /\ IF isInit THEN UNCHANGED <<ret, given>>
       ELSE /\ given' = Load(opens)
            /\ ret' = IF given' = None THEN -1 ELSE 0
    /\ UNCHANGED <<pc, file, rows, json, ghosts>>

\* The rows of a table as init_data leaves them: it stops at the first row whose
\* columns are not followed by a newline, and the ones after it have no data.
Indexed(table) ==
    LET reached == {i \in DOMAIN table : \A j \in 1 .. i - 1 : table[j] \notin Shifted}
    IN  [i \in DOMAIN table |->
            [val |-> IF i \in reached THEN table[i] ELSE None, stat |-> "NORMAL_ROW"]]

\* TableManager::init_data: a table without a data path is passed over.
InitData ==
    /\ pc = "up" /\ given # None /\ rows = None
    /\ rows' = Indexed(given)
    /\ UNCHANGED <<pc, file, isInit, ret, given, json, ghosts>>

-----------------------------------------------------------------------------
(* Editing                                                                 *)

\* The identities of the rows that a save would write.
LiveRows(table) == {r \in ToSet(table) : r.stat # "DELETE_ROW"}
Names(table) == {Canon[r.val] : r \in {x \in LiveRows(table) : x.val # None}}

Edit(table) ==
    /\ pc = "up" /\ rows # None
    /\ rows' = table
    /\ owed' = owed \ (Names(rows) \ Names(table))
    /\ UNCHANGED <<pc, file, isInit, ret, given, json, gathered, complete, torn, careless>>

\* TableIndex::add: the row has no data before its first column is set.
Add == /\ pc = "up" /\ rows # None /\ Len(rows) < MaxRows
       /\ Edit(Append(rows, [val |-> None, stat |-> "UPDATE_ROW"]))

\* set_column_data, as often as the row has columns; it takes C strings.
Change == \E i \in DOMAIN rows, r \in Row \ Shifted :
              Edit([rows EXCEPT ![i] = [val |-> r, stat |-> "UPDATE_ROW"]])

\* RowIndex::del of a row that was written.
Del == \E i \in DOMAIN rows :
           rows[i].val # None /\ Edit([rows EXCEPT ![i].stat = "DELETE_ROW"])

-----------------------------------------------------------------------------
(* Saving                                                                  *)

\* JsonDao::save: the lines of the rows that are not deleted.
SaveAllRows(table) ==    \* mutant: row_stat_ is not looked at
    [i \in DOMAIN table |-> Canon[table[i].val]]
Lines(table) ==
    LET live == Ascending({i \in DOMAIN table : table[i].stat # "DELETE_ROW"})
    IN  [k \in DOMAIN live |-> Canon[table[live[k]].val]]

\* A row without data, or without a RowIndex yet, is read through a NULL pointer.
Unreadable ==
    IF rows = None THEN given \notin {None, <<>>}
    ELSE \E r \in LiveRows(rows) : r.val = None

\* init and init_data of the process have succeeded.
Loaded == rows # None /\ ToSet(given) \intersect Shifted = {}

Die == pc' = "down" /\ Cleared

\* JsonFileDao::save reads the rows before it opens the file, which empties it.
Gathered == IF rows = None THEN <<>> ELSE Lines(rows)

OpenInPlace ==    \* mutant: the file is not truncated
    /\ pc' = "writing"
    /\ json' = Gathered
    /\ gathered' = json' /\ complete' = FALSE /\ torn' = FALSE
    /\ careless' = (careless \/ ~Loaded)
    /\ UNCHANGED <<file, isInit, ret, given, rows, owed>>
OpenFile ==
    /\ pc' = "writing"
    /\ file' = <<>>
    /\ json' = Gathered
    /\ gathered' = json' /\ complete' = FALSE /\ torn' = FALSE
    /\ careless' = (careless \/ ~Loaded)
    /\ UNCHANGED <<isInit, ret, given, rows, owed>>

\* A file that cannot be opened is left as it is: with a line to write the process
\* ends in fwrite, which is given NULL, and without one save returns 0.
Save(opens) ==
    /\ pc = "up"
    /\ IF Unreadable \/ (Gathered # <<>> /\ ~opens) THEN Die /\ UNCHANGED <<file, ghosts>>
       ELSE IF opens THEN OpenFile
       ELSE UNCHANGED vars

WriteLine ==
    /\ pc = "writing" /\ json # <<>>
    /\ file' = Append(file, Head(json))
    /\ json' = Tail(json)
    /\ UNCHANGED <<pc, isInit, ret, given, rows, ghosts>>

\* What stdio could not write, in this fwrite, a later one or fclose, it drops: of
\* the line nothing, a part, or a part that the rest of a later line completes is in
\* the file.
WriteFails ==
    /\ pc = "writing" /\ json # <<>>
    /\ file' \in {file} \union {Append(file, l) : l \in Spliced \union {Broken}}
    /\ json' = Tail(json)
    /\ torn' = TRUE /\ careless' = TRUE
    /\ UNCHANGED <<pc, isInit, ret, given, rows, gathered, complete, owed>>

\* fclose and the 0 that save returns, whatever failed.
EndSave ==
    /\ pc = "writing" /\ json = <<>>
    /\ pc' = "up"
    /\ complete' = TRUE
    /\ owed' = owed \union ToSet(gathered)
    /\ UNCHANGED <<file, memory, gathered, torn, careless>>

\* The process dies; in save, the line being written may be cut.
Crash ==
    /\ pc # "down"
    /\ Die
    /\ \/ file' = file
       \/ json # <<>> /\ file' = Append(file, Broken)
    /\ careless' = (careless \/ pc = "writing")
    /\ UNCHANGED <<gathered, complete, torn, owed>>

Next ==
    \/ Start
    \/ \E opens \in BOOLEAN : InitDao(opens)
    \/ InitData
    \/ Add \/ (rows # None /\ (Change \/ Del))
    \/ \E opens \in BOOLEAN : Save(opens)
    \/ WriteLine \/ WriteFails \/ EndSave \/ Crash

Spec == Init /\ [][Next]_vars

-----------------------------------------------------------------------------
(* What the file is good for                                               *)

TypeOK ==
    /\ pc \in {"down", "up", "writing"}
    /\ file \in Seq(Row \union {Broken})
    /\ isInit \in BOOLEAN /\ (ret # None <=> isInit)
    /\ given # None => given \in Seq(Row \ Long) /\ ret = 0
    /\ rows # None => given # None /\ rows \in Seq(MemRow)
    /\ json \in Seq(Row) /\ gathered \in Seq(Row)

\* Unless a write of the last save to open the file failed, what a process loads is
\* the rows that this save gathered up to one of them, in their order, or all of them
\* if it ended, wherever processes died and whatever earlier saves left: never the
\* rows of two saves, never a row deleted before it (json_file_dao.cpp truncates and
\* writes in place).
LoadedIsOneSave ==
    (pc = "up" /\ ret = None /\ ~torn) =>
        LET loaded == [i \in DOMAIN Load(TRUE) |-> Canon[Load(TRUE)[i]]] IN
        Load(TRUE) # None =>
            /\ IsPrefix(loaded, gathered)
            /\ complete => loaded = gathered

\* As long as no process dies in save, ends a save of which a write failed (it returns
\* 0 all the same) or saves though init or init_data failed, a row that was ever saved
\* and not deleted since is in the file, through any number of processes.
Durable == (~careless /\ pc # "writing") => owed \subseteq {Canon[l] : l \in ToSet(Whole(file))}
=============================================================================
