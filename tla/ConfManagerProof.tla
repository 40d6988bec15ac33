-------------------------- MODULE ConfManagerProof --------------------------
(* Proofs about ConfManager, for any threads, table names and failures.      *)
EXTENDS ConfManager, NumberFacts, SequenceTheorems, TLAPS

\* The index of a name that is there is the index of an entry with that name.
LEMMA FirstIs ==
    ASSUME TypeOK, NEW n, Entries(n) # {}
    PROVE  First(n) \in Entries(n) /\ First(n) \in Nat \ {0}
<1>1. Entries(n) \subseteq Nat \ {0}
  BY LenProperties DEF Entries, TypeOK
<1>2. \E i \in Entries(n) : \A j \in Entries(n) : i <= j
  BY <1>1, LeastExists
<1> QED
  BY <1>1, <1>2 DEF First

\* A function on an interval from 1 is a sequence.
LEMMA FunctionIsSeq ==
    ASSUME NEW S, NEW n \in Nat, NEW f \in [1 .. n -> S]
    PROVE  f \in Seq(S) /\ Len(f) = n /\ DOMAIN f = 1 .. n
<1>1. f \in Seq(S)
  BY SeqDef
<1>2. Len(f) \in Nat /\ DOMAIN f = 1 .. Len(f)
  BY <1>1, LenProperties
<1>3. 1 .. Len(f) = 1 .. n
  BY <1>2
<1>4. Len(f) = n
  BY <1>2, <1>3
<1> QED
  BY <1>1, <1>4

\* Expire changes one name, if the index is one.
LEMMA ExpireIs ==
    ASSUME TypeOK, NEW i
    PROVE  /\ Expire(i) \in Seq(Name \union {NoName})
           /\ Len(Expire(i)) = Len(names)
           /\ \A j \in DOMAIN names : Expire(i)[j] = IF j = i THEN NoName ELSE names[j]
<1>1. Len(names) \in Nat /\ DOMAIN names = 1 .. Len(names)
      /\ names \in [1 .. Len(names) -> Name \union {NoName}]
  BY LenProperties DEF TypeOK
<1>2. Expire(i) \in [1 .. Len(names) -> Name \union {NoName}]
  BY <1>1 DEF Expire
<1> QED
  BY <1>1, <1>2, FunctionIsSeq DEF Expire

\* A call that ends gives back the mutex it holds.
LEMMA LeaveType ==
    ASSUME TypeOK, NEW t \in Thread, pc[t] # "idle", Leave(t)
    PROVE  /\ pc' \in [Thread -> Place] /\ pc'[t] = "idle" /\ DOMAIN job' = Thread
           /\ \A u \in Thread : u # t => job'[u] = job[u] /\ pc'[u] = pc[u]
           /\ lock' \in Thread \union {None}
           /\ \A u \in Thread :
                (u = lock') <=> (pc'[u] # "idle" /\ job'[u].call = "get_table")
           /\ \A u \in Thread :
                pc'[u] = "replace" => job'[u].call = "update_table" /\ job'[u].replaces # 0
<1>1. /\ pc' \in [Thread -> Place] /\ pc'[t] = "idle" /\ DOMAIN job' = Thread
      /\ \A u \in Thread : u # t => job'[u] = job[u] /\ pc'[u] = pc[u]
  BY DEF Leave, TypeOK, Place
<1>2. lock' = IF lock = t THEN None ELSE lock
  BY DEF Leave, Unlock
<1>3. None \notin Thread
  BY ConfAssumption
<1> QED
  BY <1>1, <1>2, <1>3 DEF TypeOK

-----------------------------------------------------------------------------
(* Types                                                                   *)

\* Nothing is loaded and nobody holds the mutex.
LEMMA InitTyped == Init => TypeOK
BY ConfAssumption, EmptySeq DEF Init, TypeOK, Place

\* Whatever two threads do to the arrays at once, entries keep their types, and the
\* mutex is held by the thread that is in get_table.
LEMMA StepTyped == TypeOK /\ [Next]_vars => TypeOK'
<1> SUFFICES ASSUME TypeOK, [Next]_vars PROVE TypeOK'
  OBVIOUS
<1> USE DEF arrays, history
<1>1. ASSUME NEW t \in Thread, NEW n \in Name, get_table(t, n) PROVE TypeOK'
  <2>1. Start(t, "get_table", n, 0) /\ pc[t] = "idle" /\ lock = None /\ lock' = t
    BY <1>1 DEF get_table, Acquire
  <2>2. pc' = [pc EXCEPT ![t] = "search"]
    BY <1>1 DEF get_table
  <2>3. /\ DOMAIN job' = Thread /\ job'[t] \in Job /\ job'[t].call = "get_table"
        /\ \A u \in Thread : u # t => job'[u] = job[u]
    BY <2>1 DEF Start, TypeOK, Job
  <2>4. \A u \in Thread : (u = lock') <=> (pc'[u] # "idle" /\ job'[u].call = "get_table")
    BY <2>1, <2>2, <2>3, ConfAssumption DEF TypeOK
  <2> QED
    BY <1>1, <2>1, <2>2, <2>3, <2>4 DEF TypeOK, Place, get_table
<1>2. ASSUME NEW t \in Thread, NEW n \in Name, update_table(t, n) PROVE TypeOK'
  <2>1. First(n) \in Nat \ {0}
    BY <1>2, FirstIs DEF update_table
  <2>2. /\ Start(t, "update_table", n, First(n)) /\ pc[t] = "idle"
        /\ pc' = [pc EXCEPT ![t] = "replace"]
    BY <1>2 DEF update_table
  <2>3. /\ DOMAIN job' = Thread /\ job'[t] \in Job /\ job'[t].call = "update_table"
        /\ \A u \in Thread : u # t => job'[u] = job[u]
    BY <2>1, <2>2 DEF Start, TypeOK, Job
  <2>4. \A u \in Thread : (u = lock) <=> (pc'[u] # "idle" /\ job'[u].call = "get_table")
    BY <2>2, <2>3 DEF TypeOK
  <2>5. job'[t].replaces # 0
    BY <2>1, <2>2 DEF Start, TypeOK
  <2> QED
    BY <1>2, <2>2, <2>3, <2>4, <2>5 DEF TypeOK, Place, update_table
<1>3. ASSUME NEW t \in Thread, Found(t) PROVE TypeOK'
  <2>1. /\ pc[t] # "idle" /\ Leave(t) /\ Entries(job[t].name) # {} /\ UNCHANGED <<arrays, failed>>
        /\ given' = given \union {<<job[t].name, First(job[t].name)>>}
    BY <1>3 DEF Found
  <2>2. job[t].name \in Name
    BY <2>1 DEF TypeOK, Job
  <2>3. given' \subseteq Name \X (Nat \ {0})
    BY <2>1, <2>2, FirstIs DEF TypeOK
  <2> QED
    BY <2>1, <2>3, LeaveType DEF TypeOK
<1>4. ASSUME NEW t \in Thread, NotFound(t) PROVE TypeOK'
  BY <1>4 DEF NotFound, TypeOK, Place
<1>5. ASSUME NEW t \in Thread, ConnectFails(t) PROVE TypeOK'
  <2>1. pc[t] # "idle" /\ Leave(t) /\ UNCHANGED <<arrays, history>>
    BY <1>5 DEF ConnectFails
  <2> QED
    BY <2>1, LeaveType DEF TypeOK
<1>6. ASSUME NEW t \in Thread, Connect(t) PROVE TypeOK'
  <2>1. names' \in Seq(Name \union {NoName})
    BY <1>6, AppendProperties DEF Connect, TypeOK, Job
  <2> QED
    BY <1>6, <2>1 DEF Connect, TypeOK, Place
<1>7. ASSUME NEW t \in Thread, Query(t) PROVE TypeOK'
  <2>1. schemas' \in Seq(Name)
    BY <1>7, AppendProperties DEF Query, TypeOK, Job
  <2>2. job'[t] \in Job /\ DOMAIN job' = Thread
        /\ job'[t].call = job[t].call /\ \A u \in Thread : u # t => job'[u] = job[u]
    BY <1>7 DEF Query, TypeOK, Job
  <2> QED
    BY <1>7, <2>1, <2>2 DEF Query, TypeOK, Place
<1>8. ASSUME NEW t \in Thread, QueryFails(t) PROVE TypeOK'
  <2>1. job[t] \in Job /\ DOMAIN job = Thread
    BY <1>8 DEF QueryFails, TypeOK
  <2>2. job' = [job EXCEPT ![t].ret = 1] \/ job' = job
    BY <1>8 DEF QueryFails
  <2>3. job'[t] \in Job /\ DOMAIN job' = Thread
        /\ job'[t].call = job[t].call /\ \A u \in Thread : u # t => job'[u] = job[u]
    <3>1. CASE job' = [job EXCEPT ![t].ret = 1]
      <4>1. job'[t] = [job[t] EXCEPT !.ret = 1] /\ DOMAIN job' = Thread
            /\ \A u \in Thread : u # t => job'[u] = job[u]
        BY <2>1, <3>1
      <4>2. job'[t] \in Job /\ job'[t].call = job[t].call
        BY <2>1, <4>1 DEF Job
      <4> QED
        BY <4>1, <4>2
    <3>2. CASE job' = job
      BY <2>1, <3>2
    <3> QED
      BY <2>2, <3>1, <3>2
  <2> QED
    BY <1>8, <2>3 DEF QueryFails, TypeOK, Place
<1>9. ASSUME NEW t \in Thread, Store(t) PROVE TypeOK'
  <2>1. [name |-> job[t].name, rows |-> job[t].rows] \in TableData
    BY <1>9 DEF Store, TypeOK, Job, TableData
  <2>2. tables' \in Seq(TableData) /\ Len(tables') = Len(tables) + 1 /\ Len(tables) \in Nat
    BY <1>9, <2>1, AppendProperties, LenProperties DEF Store, TypeOK
  <2> QED
    BY <1>9, <2>2 DEF Store, TypeOK, Place
<1>10. ASSUME NEW t \in Thread, ReturnTable(t) PROVE TypeOK'
  <2>1. pc[t] # "idle" /\ Leave(t) /\ UNCHANGED <<arrays, failed>>
    BY <1>10 DEF ReturnTable
  <2>2. job[t].name \in Name /\ NewIndex \in Nat
    BY <1>10, LenProperties DEF ReturnTable, TypeOK, Job, NewIndex
  <2>3. given' \subseteq Name \X (Nat \ {0})
    BY <1>10, <2>2 DEF ReturnTable, TypeOK
  <2> QED
    BY <2>1, <2>3, LeaveType DEF TypeOK
<1>11. ASSUME NEW t \in Thread, ReturnUpdate(t) PROVE TypeOK'
  <2>1. /\ pc[t] # "idle" /\ Leave(t) /\ UNCHANGED <<schemas, tables, old, given, failed>>
        /\ names' = names \/ names' = Expire(job[t].replaces)
    BY <1>11 DEF ReturnUpdate
  <2>2. names' \in Seq(Name \union {NoName})
    BY <2>1, ExpireIs DEF TypeOK
  <2> QED
    BY <2>1, <2>2, LeaveType DEF TypeOK
<1>12. CASE clear
  <2>1. tables' = [i \in 1 .. Len(tables) |->
                    IF \E j \in DOMAIN old : old[j] = i
                    THEN [tables[i] EXCEPT !.rows = "cleared"] ELSE tables[i]]
    BY <1>12, LenProperties DEF clear, TypeOK
  <2>2. \A i \in 1 .. Len(tables) : tables[i] \in TableData
    BY ElementOfSeq DEF TypeOK
  <2>3. tables' \in [1 .. Len(tables) -> TableData]
    BY <2>1, <2>2 DEF TableData
  <2>4. tables' \in Seq(TableData) /\ Len(tables') = Len(tables)
    BY <2>3, FunctionIsSeq, LenProperties DEF TypeOK
  <2>5. old' \in Seq(Nat \ {0})
    BY <1>12, EmptySeq DEF clear
  <2> QED
    BY <1>12, <2>4, <2>5 DEF clear, TypeOK
<1>13. CASE clear_all
  BY <1>13, EmptySeq DEF clear_all, TypeOK
<1>14. ASSUME NEW t \in Thread, Replace(t) PROVE TypeOK'
  <2>1. job[t].replaces \in Nat \ {0}
    BY <1>14 DEF Replace, TypeOK, Job
  <2>2. old' \in Seq(Nat \ {0})
    BY <1>14, <2>1, AppendProperties DEF Replace, TypeOK
  <2> QED
    BY <1>14, <2>2 DEF Replace, TypeOK, Place
<1>15. CASE UNCHANGED vars
  BY <1>15 DEF vars, TypeOK
<1> QED
  BY <1>1, <1>2, <1>3, <1>4, <1>5, <1>6, <1>7, <1>8, <1>9, <1>10, <1>11, <1>12, <1>13, <1>14,
   <1>15 DEF Next

\* The mutex belongs to the thread in get_table and to no other, and every index that
\* is handed out counts from the start of the arrays, whichever calls clients mix:
\* also a refresh, clear or clear_all in the middle of another thread's load.
THEOREM TypeCorrect == Spec => []TypeOK
BY InitTyped, StepTyped, PTL DEF Spec

-----------------------------------------------------------------------------
(* The inductive invariant                                                 *)

Loading(t) == pc[t] \in {"query", "store"}

\* Clients that make no call without mutex while another thread is in a call.
Disciplined == Quiet = Unlocked

\* With them one thread is in a call at most.
Single == \A t, u \in Busy : t = u

\* Each table has its name or has lost it, and a load is one name ahead.
Named ==
    /\ \A i \in DOMAIN tables : i \in DOMAIN names /\ names[i] \in {tables[i].name, NoName}
    /\ (\A t \in Thread : ~Loading(t)) => Len(names) = Len(tables)
    /\ \A t \in Thread :
        /\ Loading(t) =>
            Len(names) = Len(tables) + 1 /\ names[Len(names)] = job[t].name
        /\ pc[t] = "return" =>
            /\ Len(tables) > 0
            /\ tables[Len(tables)].name = job[t].name /\ names[Len(names)] = job[t].name

\* Until a query fails every table was loaded and has its columns.
Columns ==
    ~failed =>
        /\ \A i \in DOMAIN tables :
            /\ i \in DOMAIN schemas /\ schemas[i] = tables[i].name
            /\ tables[i].rows # "missing"
        /\ (\A t \in Thread : pc[t] # "store") => Len(schemas) = Len(tables)
        /\ \A t \in Thread :
            /\ pc[t] = "store" =>
                /\ Len(schemas) = Len(tables) + 1 /\ schemas[Len(schemas)] = job[t].name
                /\ job[t].rows = "loaded"
            /\ pc[t] = "return" => tables[Len(tables)].rows = "loaded"
            /\ pc[t] # "idle" => job[t].ret = 0

\* Until a query fails a name is found at one index, except that while a table is
\* loaded anew it is also found at the entry that is replaced.
Unique ==
    ~failed =>
        /\ \A i, j \in DOMAIN names : (i < j /\ names[i] = names[j] /\ names[i] # NoName) =>
            \E t \in Thread :
                /\ Loading(t) \/ pc[t] = "return"
                /\ job[t].call = "update_table"
                /\ i = job[t].replaces /\ j = Len(names)
        /\ \A t \in Thread :
            /\ (pc[t] = "connect" /\ job[t].call = "get_table") => Entries(job[t].name) = {}
            /\ (pc[t] # "idle" /\ job[t].call = "update_table") =>
                /\ pc[t] # "search"
                /\ job[t].replaces \in DOMAIN names /\ names[job[t].replaces] = job[t].name
                /\ pc[t] \notin {"replace", "connect"} => job[t].replaces < Len(names)

IInv == Single /\ Named /\ Columns /\ Unique /\ HandleSound

Inv == TypeOK /\ IInv

\* The arrays as SMT is to see them.
LEMMA Arrays ==
    ASSUME TypeOK
    PROVE  /\ Len(names) \in Nat /\ DOMAIN names = 1 .. Len(names)
           /\ Len(tables) \in Nat /\ DOMAIN tables = 1 .. Len(tables)
           /\ Len(schemas) \in Nat /\ DOMAIN schemas = 1 .. Len(schemas)
           /\ \A i \in DOMAIN tables : tables[i] \in TableData
           /\ \A t \in Thread : pc[t] \in Place
BY LenProperties, ElementOfSeq DEF TypeOK

\* With disciplined clients a call begins while no thread is in one.
LEMMA AloneAtEntry ==
    ASSUME Disciplined, Inv, NEW t \in Thread, NEW n \in Name,
           get_table(t, n) \/ update_table(t, n)
    PROVE  Busy = {}
<1>1. CASE get_table(t, n)
  <2>1. lock = None /\ NoUpdate
    BY <1>1 DEF get_table, Acquire, Disciplined, Unlocked
  <2>2. \A u \in Busy : job[u] \in Job /\ job[u].call # "get_table"
    BY <2>1, ConfAssumption DEF Busy, Inv, TypeOK
  <2> QED
    BY <2>1, <2>2 DEF NoUpdate, Job
<1>2. CASE update_table(t, n)
  BY <1>2 DEF update_table, Alone, Disciplined, Unlocked
<1> QED
  BY <1>1, <1>2

\* A name that is found leads to its table, and its job knows which.
LEMMA FoundIs ==
    ASSUME Inv, \A t \in Thread : ~Loading(t), NEW n \in Name, Entries(n) # {}
    PROVE  /\ First(n) \in DOMAIN names /\ names[First(n)] = n
           /\ First(n) \in DOMAIN tables /\ tables[First(n)].name = n
<1>1. First(n) \in DOMAIN names /\ names[First(n)] = n
  BY FirstIs DEF Inv, Entries
<1>2. DOMAIN tables = DOMAIN names
  BY Arrays DEF Inv, IInv, Named
<1> QED
  BY <1>1, <1>2, ConfAssumption DEF Inv, IInv, Named

\* A call begins: a refresh knows the one entry that it is to replace.
LEMMA EntryPreserves ==
    ASSUME Disciplined, Inv, NEW t \in Thread, NEW n \in Name,
           get_table(t, n) \/ update_table(t, n)
    PROVE  IInv'
<1>1. \A u \in Thread : pc[u] = "idle"
  BY AloneAtEntry DEF Busy
<1>2. UNCHANGED <<names, schemas, tables, given, failed>>
  BY DEF get_table, update_table, arrays, history
<1>3. PICK q \in {"search", "replace"} :
        /\ pc' = [pc EXCEPT ![t] = q]
        /\ q = "replace" => Entries(n) # {} /\ Start(t, "update_table", n, First(n))
        /\ q = "search" => Start(t, "get_table", n, 0)
  BY DEF get_table, update_table
<1>4. pc'[t] = q /\ \A u \in Thread : u # t => pc'[u] = "idle"
  BY <1>1, <1>3 DEF Inv, TypeOK
<1>5. /\ job'[t].name = n /\ job'[t].ret = 0
      /\ q = "search" => job'[t].call = "get_table"
      /\ q = "replace" => job'[t].call = "update_table" /\ job'[t].replaces = First(n)
  BY <1>3 DEF Start, Inv, TypeOK
<1>6. Single'
  BY <1>4 DEF Single, Busy
<1>7. Named'
  BY <1>1, <1>2, <1>4 DEF Inv, IInv, Named, Loading
<1>8. Columns'
  BY <1>1, <1>2, <1>4, <1>5 DEF Inv, IInv, Columns
<1>9. Unique'
  <2>1. q = "replace" => First(n) \in DOMAIN names /\ names[First(n)] = n
    BY <1>1, <1>3, FoundIs DEF Loading
  <2> QED
    BY <1>1, <1>2, <1>4, <1>5, <2>1 DEF Inv, IInv, Unique, Loading, Entries
<1>10. HandleSound'
  BY <1>2 DEF Inv, IInv, HandleSound
<1> QED
  BY <1>6, <1>7, <1>8, <1>9, <1>10 DEF IInv

\* A thread in a call is the only one.
LEMMA OthersIdle ==
    ASSUME Inv, NEW t \in Thread, pc[t] # "idle"
    PROVE  \A u \in Thread : u # t => pc[u] = "idle"
BY DEF Inv, IInv, Single, Busy

\* A call that ends without a change to the arrays, before or after a load.
LEMMA LeavePreserves ==
    ASSUME Inv, NEW t \in Thread, pc[t] \in {"search", "connect", "return"}, Leave(t),
           UNCHANGED <<schemas, tables, failed>>,
           names' = names \/ (pc[t] = "return" /\ names' = Expire(job[t].replaces)),
           (~failed /\ pc[t] = "return" /\ job[t].call = "update_table") =>
                names' = Expire(job[t].replaces)
    PROVE  Single' /\ Named' /\ Columns' /\ Unique'
<1>1. \A u \in Thread : pc'[u] = "idle"
  BY OthersIdle DEF Leave, Inv, TypeOK
<1>2. \A u \in Thread : ~Loading(u) /\ pc[u] # "store"
  BY OthersIdle DEF Loading
<1>3. /\ Len(names) = Len(tables) /\ Len(names') = Len(names) /\ DOMAIN names' = DOMAIN names
      /\ \A i \in DOMAIN names : names'[i] = names[i] \/ names'[i] = NoName
  <2>1. Len(names) = Len(tables)
    BY <1>2 DEF Inv, IInv, Named
  <2>2. names' \in Seq(Name \union {NoName}) /\ Len(names') = Len(names)
    BY ExpireIs DEF Inv, TypeOK
  <2>3. DOMAIN names' = DOMAIN names
    BY <2>2, LenProperties DEF Inv, TypeOK
  <2> QED
    BY <2>1, <2>2, <2>3, ExpireIs DEF Inv
<1>4. Single'
  BY <1>1 DEF Single, Busy
<1>5. Named'
  BY <1>1, <1>3 DEF Inv, IInv, Named, Loading
<1>6. Columns'
  BY <1>1, <1>2 DEF Inv, IInv, Columns
<1>7. Unique'
  <2> SUFFICES ASSUME ~failed, NEW i \in DOMAIN names, NEW j \in DOMAIN names,
                      i < j, names'[i] = names'[j], names'[i] # NoName
               PROVE  FALSE
    BY <1>1, <1>3 DEF Unique
  <2>1. names[i] = names[j] /\ names[i] # NoName
    BY <1>3
  <2>2. PICK u \in Thread : /\ Loading(u) \/ pc[u] = "return"
                            /\ job[u].call = "update_table" /\ i = job[u].replaces
    BY <2>1 DEF Inv, IInv, Unique
  <2>3. u = t /\ pc[t] = "return"
    BY <1>2, <2>2, OthersIdle
  <2>4. names'[i] = NoName
    BY <2>2, <2>3, ExpireIs DEF Inv
  <2> QED
    BY <2>4
<1> QED
  BY <1>4, <1>5, <1>6, <1>7

\* A look-up that finds a name hands out the index of its table.
LEMMA FoundPreserves ==
    ASSUME Inv, NEW t \in Thread, Found(t)
    PROVE  IInv'
<1>1. /\ pc[t] = "search" /\ Leave(t) /\ Entries(job[t].name) # {}
      /\ UNCHANGED <<names, schemas, tables, failed>>
      /\ given' = given \union {<<job[t].name, First(job[t].name)>>}
  BY DEF Found, arrays
<1>2. Single' /\ Named' /\ Columns' /\ Unique'
  BY <1>1, LeavePreserves
<1>3. HandleSound'
  <2>1. job[t].name \in Name /\ \A u \in Thread : ~Loading(u) /\ pc[u] # "store"
    BY <1>1, OthersIdle DEF Inv, TypeOK, Job, Loading
  <2> DEFINE n == job[t].name
             i == First(n)
  <2>2. i \in DOMAIN tables /\ tables[i].name = n
    BY <1>1, <2>1, FoundIs
  <2>3. ~failed => /\ tables[i].rows # "missing"
                   /\ i \in DOMAIN schemas /\ schemas[i] = n
    BY <2>2 DEF Inv, IInv, Columns
  <2> HIDE DEF n, i
  <2>4. given' = given \union {<<n, i>>}
    BY <1>1 DEF n, i
  <2> QED
    BY <1>1, <2>2, <2>3, <2>4 DEF Inv, IInv, HandleSound
<1> QED
  BY <1>2, <1>3 DEF IInv

\* A load that cannot connect has stored nothing.
LEMMA ConnectFailsPreserves ==
    ASSUME Inv, NEW t \in Thread, ConnectFails(t)
    PROVE  IInv'
<1>1. pc[t] = "connect" /\ Leave(t) /\ UNCHANGED <<names, schemas, tables, given, failed>>
  BY DEF ConnectFails, arrays, history
<1>2. HandleSound'
  BY <1>1 DEF Inv, IInv, HandleSound
<1> QED
  BY <1>1, <1>2, LeavePreserves DEF IInv

\* The last entry is the one that was loaded.
LEMMA ReturnTablePreserves ==
    ASSUME Inv, NEW t \in Thread, ReturnTable(t)
    PROVE  IInv'
<1>1. /\ pc[t] = "return" /\ job[t].call = "get_table" /\ Leave(t)
      /\ UNCHANGED <<names, schemas, tables, failed>>
      /\ given' = given \/ given' = given \union {<<job[t].name, Len(tables)>>}
  BY DEF ReturnTable, arrays, NewIndex
<1>2. Single' /\ Named' /\ Columns' /\ Unique'
  BY <1>1, LeavePreserves
<1>3. HandleSound'
  <2> DEFINE n == job[t].name
             i == Len(tables)
  <2>1. i \in DOMAIN tables /\ tables[i].name = n
    <3>1. i \in DOMAIN tables
      <4>1. i > 0
        BY <1>1 DEF Inv, IInv, Named
      <4> QED
        BY <4>1, Arrays DEF Inv
    <3>2. tables[i].name = n
      BY <1>1 DEF Inv, IInv, Named
    <3> QED
      BY <3>1, <3>2
  <2>2. ~failed => /\ tables[i].rows = "loaded"
                   /\ i \in DOMAIN schemas /\ schemas[i] = n
    BY <1>1, <2>1 DEF Inv, IInv, Columns
  <2> HIDE DEF n, i
  <2>3. given' = given \/ given' = given \union {<<n, i>>}
    BY <1>1 DEF n, i
  <2> QED
    BY <1>1, <2>1, <2>2, <2>3 DEF Inv, IInv, HandleSound
<1> QED
  BY <1>2, <1>3 DEF IInv

\* The old entry loses its name when the refresh succeeded.
LEMMA ReturnUpdatePreserves ==
    ASSUME Inv, NEW t \in Thread, ReturnUpdate(t)
    PROVE  IInv'
<1>1. /\ pc[t] = "return" /\ job[t].call = "update_table" /\ Leave(t)
      /\ UNCHANGED <<schemas, tables, given, failed>>
      /\ names' = IF job[t].ret = 0 THEN Expire(job[t].replaces) ELSE names
  BY DEF ReturnUpdate, history
<1>2. ~failed => job[t].ret = 0
  BY <1>1 DEF Inv, IInv, Columns
<1>3. HandleSound'
  BY <1>1 DEF Inv, IInv, HandleSound
<1> QED
  BY <1>1, <1>2, <1>3, LeavePreserves DEF IInv

\* The search changes nothing, and no other thread can enter the name meanwhile.
LEMMA NotFoundPreserves ==
    ASSUME Inv, NEW t \in Thread, NotFound(t)
    PROVE  IInv'
<1>1. /\ pc[t] = "search" /\ Entries(job[t].name) = {}
      /\ pc' = [pc EXCEPT ![t] = "connect"]
      /\ UNCHANGED <<names, schemas, tables, job, given, failed>>
  BY DEF NotFound, arrays, history
<1>2. pc'[t] = "connect" /\ \A u \in Thread : u # t => pc'[u] = "idle" /\ pc[u] = "idle"
  BY <1>1, OthersIdle DEF Inv, TypeOK
<1>3. Single'
  BY <1>2 DEF Single, Busy
<1>4. Named'
  BY <1>1, <1>2 DEF Inv, IInv, Named, Loading
<1>5. Columns'
  BY <1>1, <1>2 DEF Inv, IInv, Columns
<1>6. Unique'
  BY <1>1, <1>2 DEF Inv, IInv, Unique, Loading, Entries
<1>7. HandleSound'
  BY <1>1 DEF Inv, IInv, HandleSound
<1> QED
  BY <1>3, <1>4, <1>5, <1>6, <1>7 DEF IInv

\* A refresh lists the entry that it replaces, which changes no name and no table.
LEMMA ReplacePreserves ==
    ASSUME Inv, NEW t \in Thread, Replace(t)
    PROVE  IInv'
<1>1. /\ pc[t] = "replace" /\ pc' = [pc EXCEPT ![t] = "connect"]
      /\ UNCHANGED <<names, schemas, tables, job, given, failed>>
  BY DEF Replace, history
<1>2. pc'[t] = "connect" /\ \A u \in Thread : u # t => pc'[u] = "idle" /\ pc[u] = "idle"
  BY <1>1, OthersIdle DEF Inv, TypeOK
<1>3. job[t].call = "update_table"
  BY <1>1 DEF Inv, TypeOK
<1>4. Single'
  BY <1>2 DEF Single, Busy
<1>5. Named'
  BY <1>1, <1>2 DEF Inv, IInv, Named, Loading
<1>6. Columns'
  BY <1>1, <1>2 DEF Inv, IInv, Columns
<1>7. Unique'
  BY <1>1, <1>2, <1>3 DEF Inv, IInv, Unique, Loading, Entries
<1>8. HandleSound'
  BY <1>1 DEF Inv, IInv, HandleSound
<1> QED
  BY <1>4, <1>5, <1>6, <1>7, <1>8 DEF IInv

\* The new name is one ahead of the tables; only in a refresh is it there already.
LEMMA ConnectPreserves ==
    ASSUME Inv, NEW t \in Thread, Connect(t)
    PROVE  IInv'
<1> DEFINE n == job[t].name
           last == Len(names) + 1
<1>1. /\ pc[t] = "connect" /\ names' = Append(names, n)
      /\ pc' = [pc EXCEPT ![t] = "query"]
      /\ UNCHANGED <<schemas, tables, job, given, failed>>
  BY DEF Connect, history
<1>2. pc'[t] = "query" /\ \A u \in Thread : u # t => pc'[u] = "idle" /\ pc[u] = "idle"
  BY <1>1, OthersIdle DEF Inv, TypeOK
<1>3. n \in Name /\ job[t].call \in {"get_table", "update_table"}
  BY <1>1 DEF Inv, TypeOK, Job
<1>4. /\ Len(names') = last /\ names'[last] = n
      /\ Len(names) \in Nat /\ DOMAIN names = 1 .. Len(names)
      /\ \A i \in DOMAIN names : names'[i] = names[i]
      /\ DOMAIN names' = 1 .. last
  <2>1. names \in Seq(Name \union {NoName}) /\ n \in Name \union {NoName}
    BY <1>3 DEF Inv, TypeOK
  <2>2. names' \in Seq(Name \union {NoName})
    BY <1>1, <2>1, AppendProperties
  <2> QED
    BY <1>1, <2>1, <2>2, AppendProperties, LenProperties
<1>5. Single'
  BY <1>2 DEF Single, Busy
<1>6. Named'
  <2>1. Len(names) = Len(tables)
    BY <1>1, <1>2 DEF Inv, IInv, Named, Loading
  <2>2. \A i \in DOMAIN tables' :
          i \in DOMAIN names' /\ names'[i] \in {tables'[i].name, NoName}
    <3>1. \A i \in DOMAIN tables : i \in DOMAIN names /\ names[i] \in {tables[i].name, NoName}
      BY DEF Inv, IInv, Named
    <3> QED
      BY <1>1, <1>4, <3>1
  <2>3. Len(names') = Len(tables') + 1 /\ names'[Len(names')] = job'[t].name
    BY <1>1, <1>4, <2>1
  <2>4. Loading(t)' /\ \A u \in Thread : u # t => ~Loading(u)' /\ pc'[u] # "return"
    BY <1>2 DEF Loading
  <2>5. pc'[t] # "return"
    BY <1>2
  <2> QED
    BY <2>2, <2>3, <2>4, <2>5 DEF Named
<1>7. Columns'
  BY <1>1, <1>2 DEF Inv, IInv, Columns
<1>8. Unique'
  <2> SUFFICES ASSUME ~failed PROVE Unique'
    BY <1>1 DEF Unique
  <2>1. \A i, j \in DOMAIN names : i < j /\ names[i] = names[j] => names[i] = NoName
    BY <1>1, <1>2 DEF Inv, IInv, Unique, Loading
  <2>2. CASE job[t].call = "get_table"
    <3>1. \A i \in DOMAIN names : names[i] # n
      BY <1>1, <2>2 DEF Inv, IInv, Unique, Entries
    <3>2. \A i, j \in DOMAIN names' : i < j /\ names'[i] = names'[j] => names'[i] = NoName
      BY <1>4, <2>1, <3>1
    <3> QED
      BY <1>1, <1>2, <2>2, <3>2 DEF Unique
  <2>3. CASE job[t].call = "update_table"
    <3>1. job[t].replaces \in DOMAIN names /\ names[job[t].replaces] = n
      BY <1>1, <2>3 DEF Inv, IInv, Unique
    <3>2. n # NoName
      BY <1>3, ConfAssumption
    <3>3. \A i \in DOMAIN names : names[i] = n => i = job[t].replaces
      BY <1>4, <2>1, <3>1, <3>2
    <3>4. \A i, j \in DOMAIN names' :
            i < j /\ names'[i] = names'[j] /\ names'[i] # NoName =>
                i = job[t].replaces /\ j = last
      BY <1>4, <2>1, <3>3
    <3>5. job[t].replaces \in DOMAIN names' /\ names'[job[t].replaces] = n
          /\ job[t].replaces < last
      BY <1>4, <3>1
    <3> QED
      BY <1>1, <1>2, <1>4, <2>3, <3>4, <3>5 DEF Unique, Loading
  <2> QED
    BY <1>3, <2>2, <2>3
<1>9. HandleSound'
  BY <1>1 DEF Inv, IInv, HandleSound
<1> QED
  BY <1>5, <1>6, <1>7, <1>8, <1>9 DEF IInv

\* The columns are one ahead of the tables as well.
LEMMA QueryPreserves ==
    ASSUME Inv, NEW t \in Thread, Query(t)
    PROVE  IInv'
<1> DEFINE n == job[t].name
<1>1. /\ pc[t] = "query" /\ schemas' = Append(schemas, n)
      /\ job' = [job EXCEPT ![t].rows = "loaded"] /\ pc' = [pc EXCEPT ![t] = "store"]
      /\ UNCHANGED <<names, tables, given, failed>>
  BY DEF Query, history
<1>2. pc'[t] = "store" /\ \A u \in Thread : u # t => pc'[u] = "idle" /\ pc[u] = "idle"
  BY <1>1, OthersIdle DEF Inv, TypeOK
<1>3. /\ job[t] \in Job /\ job'[t].name = n /\ job'[t].call = job[t].call
      /\ job'[t].replaces = job[t].replaces /\ job'[t].ret = job[t].ret
      /\ job'[t].rows = "loaded"
  BY <1>1 DEF Inv, TypeOK, Job
<1>4. /\ Len(schemas') = Len(schemas) + 1 /\ schemas'[Len(schemas) + 1] = n
      /\ Len(schemas) \in Nat /\ DOMAIN schemas = 1 .. Len(schemas)
      /\ \A i \in DOMAIN schemas : schemas'[i] = schemas[i] /\ i \in DOMAIN schemas'
  <2>1. schemas \in Seq(Name) /\ n \in Name
    BY <1>3 DEF Inv, TypeOK, Job
  <2>2. schemas' \in Seq(Name)
    BY <1>1, <2>1, AppendProperties
  <2> QED
    BY <1>1, <2>1, <2>2, AppendProperties, LenProperties
<1>5. Single'
  BY <1>2 DEF Single, Busy
<1>6. Named'
  BY <1>1, <1>2, <1>3 DEF Inv, IInv, Named, Loading
<1>7. Columns'
  <2> SUFFICES ASSUME ~failed PROVE Columns'
    BY <1>1 DEF Columns
  <2>1. /\ \A i \in DOMAIN tables : /\ i \in DOMAIN schemas /\ schemas[i] = tables[i].name
                                    /\ tables[i].rows # "missing"
        /\ Len(schemas) = Len(tables) /\ job[t].ret = 0
    BY <1>1, <1>2 DEF Inv, IInv, Columns
  <2>2. \A i \in DOMAIN tables' : /\ i \in DOMAIN schemas' /\ schemas'[i] = tables'[i].name
                                  /\ tables'[i].rows # "missing"
    BY <1>1, <1>4, <2>1
  <2>3. Len(schemas') = Len(tables') + 1 /\ schemas'[Len(schemas')] = job'[t].name
    BY <1>1, <1>3, <1>4, <2>1
  <2> QED
    BY <1>2, <1>3, <2>1, <2>2, <2>3 DEF Columns
<1>8. Unique'
  BY <1>1, <1>2, <1>3 DEF Inv, IInv, Unique, Loading, Entries
<1>9. HandleSound'
  BY <1>1, <1>4 DEF Inv, IInv, HandleSound
<1> QED
  BY <1>5, <1>6, <1>7, <1>8, <1>9 DEF IInv

\* After a failed query there are no columns to speak of.
LEMMA QueryFailsPreserves ==
    ASSUME Inv, NEW t \in Thread, QueryFails(t)
    PROVE  IInv'
<1>1. /\ pc[t] = "query" /\ pc' = [pc EXCEPT ![t] = "store"] /\ failed' = TRUE
      /\ job' = [job EXCEPT ![t].ret = 1] \/ UNCHANGED job
      /\ UNCHANGED <<names, schemas, tables, given>>
  BY DEF QueryFails, arrays
<1>2. pc'[t] = "store" /\ \A u \in Thread : u # t => pc'[u] = "idle" /\ pc[u] = "idle"
  BY <1>1, OthersIdle DEF Inv, TypeOK
<1>3. job'[t].name = job[t].name
  BY <1>1 DEF Inv, TypeOK, Job
<1>4. Single'
  BY <1>2 DEF Single, Busy
<1>5. Named'
  BY <1>1, <1>2, <1>3 DEF Inv, IInv, Named, Loading
<1>6. Columns' /\ Unique'
  BY <1>1 DEF Columns, Unique
<1>7. HandleSound'
  BY <1>1 DEF Inv, IInv, HandleSound
<1> QED
  BY <1>4, <1>5, <1>6, <1>7 DEF IInv

\* The table catches up with its name and its columns.
LEMMA StorePreserves ==
    ASSUME Inv, NEW t \in Thread, Store(t)
    PROVE  IInv'
<1> DEFINE new == [name |-> job[t].name, rows |-> job[t].rows]
           last == Len(tables) + 1
<1>1. /\ pc[t] = "store" /\ tables' = Append(tables, new) /\ pc' = [pc EXCEPT ![t] = "return"]
      /\ UNCHANGED <<names, schemas, job, given, failed>>
  BY DEF Store, history
<1>2. pc'[t] = "return" /\ \A u \in Thread : u # t => pc'[u] = "idle" /\ pc[u] = "idle"
  BY <1>1, OthersIdle DEF Inv, TypeOK
<1>3. new.name = job[t].name /\ new.rows = job[t].rows /\ new \in TableData
  BY <1>1 DEF Inv, TypeOK, Job, TableData
<1> HIDE DEF new
<1>4. /\ Len(tables') = last /\ tables'[last] = new
      /\ Len(tables) \in Nat /\ DOMAIN tables = 1 .. Len(tables)
      /\ \A i \in DOMAIN tables : tables'[i] = tables[i]
      /\ DOMAIN tables' = 1 .. last
  <2>1. tables \in Seq(TableData)
    BY DEF Inv, TypeOK
  <2>2. tables' \in Seq(TableData)
    BY <1>1, <1>3, <2>1, AppendProperties
  <2> QED
    BY <1>1, <1>3, <2>1, <2>2, AppendProperties, LenProperties
<1>5. /\ Len(names) = last /\ names[last] = job[t].name /\ last \in DOMAIN names
  <2>1. Len(names) = Len(tables) + 1 /\ names[Len(names)] = job[t].name
    BY <1>1 DEF Inv, IInv, Named, Loading
  <2>2. DOMAIN names = 1 .. Len(names)
    BY Arrays DEF Inv
  <2> QED
    BY <1>4, <2>1, <2>2
<1>6. Single'
  BY <1>2 DEF Single, Busy
<1>7. Named'
  <2>1. \A i \in DOMAIN tables : i \in DOMAIN names /\ names[i] \in {tables[i].name, NoName}
    BY DEF Inv, IInv, Named
  <2>2. \A i \in DOMAIN tables' :
          i \in DOMAIN names' /\ names'[i] \in {tables'[i].name, NoName}
    BY <1>1, <1>3, <1>4, <1>5, <2>1
  <2>3. /\ Len(names') = Len(tables') /\ Len(tables') > 0
        /\ tables'[Len(tables')].name = job'[t].name
        /\ names'[Len(names')] = job'[t].name
    BY <1>1, <1>3, <1>4, <1>5
  <2>4. \A u \in Thread : ~Loading(u)' /\ (pc'[u] = "return" => u = t)
    BY <1>2 DEF Loading
  <2> QED
    BY <2>2, <2>3, <2>4 DEF Named
<1>8. Columns'
  <2> SUFFICES ASSUME ~failed PROVE Columns'
    BY <1>1 DEF Columns
  <2>1. /\ Len(schemas) = last /\ schemas[last] = job[t].name /\ new.rows = "loaded"
        /\ job[t].ret = 0 /\ last \in DOMAIN schemas
    <3>1. /\ Len(schemas) = Len(tables) + 1 /\ schemas[Len(schemas)] = job[t].name
          /\ job[t].rows = "loaded" /\ job[t].ret = 0
      BY <1>1 DEF Inv, IInv, Columns
    <3>2. DOMAIN schemas = 1 .. Len(schemas)
      BY Arrays DEF Inv
    <3> QED
      BY <1>3, <1>4, <3>1, <3>2
  <2>2. \A i \in DOMAIN tables' : /\ i \in DOMAIN schemas /\ schemas[i] = tables'[i].name
                                  /\ tables'[i].rows # "missing"
    <3>1. \A i \in DOMAIN tables : /\ i \in DOMAIN schemas /\ schemas[i] = tables[i].name
                                   /\ tables[i].rows # "missing"
      BY DEF Inv, IInv, Columns
    <3> QED
      BY <1>3, <1>4, <2>1, <3>1
  <2>3. Len(schemas') = Len(tables') /\ tables'[Len(tables')].rows = "loaded"
    BY <1>1, <1>4, <2>1
  <2> QED
    BY <1>1, <1>2, <2>1, <2>2, <2>3 DEF Columns
<1>9. Unique'
  BY <1>1, <1>2 DEF Inv, IInv, Unique, Loading, Entries
<1>10. HandleSound'
  BY <1>1, <1>4 DEF Inv, IInv, HandleSound
<1> QED
  BY <1>6, <1>7, <1>8, <1>9, <1>10 DEF IInv

\* Emptying a table leaves it its name and does not make it one that was never loaded.
LEMMA ClearPreserves ==
    ASSUME Disciplined, Inv, clear
    PROVE  IInv'
<1>1. /\ UNCHANGED <<names, schemas, pc, job, given, failed>>
      /\ DOMAIN tables' = DOMAIN tables
      /\ \A i \in DOMAIN tables :
            tables'[i] = tables[i] \/ tables'[i] = [tables[i] EXCEPT !.rows = "cleared"]
  BY DEF clear, history
<1>2. \A u \in Thread : pc[u] = "idle"
  BY DEF clear, Alone, Busy, Disciplined, Unlocked
<1>3. \A i \in DOMAIN tables : /\ tables'[i].name = tables[i].name
                               /\ tables[i].rows # "missing" => tables'[i].rows # "missing"
  BY <1>1, Arrays DEF Inv, TableData
<1>4. Len(tables') = Len(tables)
  <2>1. tables' \in Seq(TableData)
    <3>1. TypeOK'
      BY StepTyped DEF Inv, Next
    <3> QED
      BY <3>1 DEF TypeOK
  <2> QED
    BY <1>1, <2>1, Arrays, LenProperties DEF Inv
<1>5. Single'
  BY <1>1, <1>2 DEF Single, Busy
<1>6. Named'
  BY <1>1, <1>2, <1>3, <1>4 DEF Inv, IInv, Named, Loading
<1>7. Columns'
  BY <1>1, <1>2, <1>3, <1>4 DEF Inv, IInv, Columns
<1>8. Unique'
  BY <1>1, <1>2 DEF Inv, IInv, Unique, Loading
<1>9. HandleSound'
  BY <1>1, <1>3 DEF Inv, IInv, HandleSound
<1> QED
  BY <1>5, <1>6, <1>7, <1>8, <1>9 DEF IInv

\* With empty arrays and no call under way there is nothing to keep.
LEMMA EmptyIs ==
    ASSUME names = <<>>, schemas = <<>>, tables = <<>>, given = {},
           \A u \in Thread : pc[u] = "idle"
    PROVE  IInv
BY DEF IInv, Single, Busy, Named, Loading, Columns, Unique, Entries, HandleSound

\* The invariant is inductive for disciplined clients.
LEMMA StepPreserves == Disciplined /\ Inv /\ [Next]_vars => Inv'
<1> SUFFICES ASSUME Disciplined, Inv, [Next]_vars PROVE Inv'
  OBVIOUS
<1>1. TypeOK'
  BY StepTyped DEF Inv
<1>2. IInv'
  <2>1. ASSUME NEW t \in Thread, NEW n \in Name, get_table(t, n) \/ update_table(t, n)
        PROVE  IInv'
    BY <2>1, EntryPreserves
  <2>2. ASSUME NEW t \in Thread, Found(t) PROVE IInv'
    BY <2>2, FoundPreserves
  <2>3. ASSUME NEW t \in Thread, NotFound(t) PROVE IInv'
    BY <2>3, NotFoundPreserves
  <2>4. ASSUME NEW t \in Thread, ConnectFails(t) PROVE IInv'
    BY <2>4, ConnectFailsPreserves
  <2>5. ASSUME NEW t \in Thread, Connect(t) PROVE IInv'
    BY <2>5, ConnectPreserves
  <2>6. ASSUME NEW t \in Thread, Query(t) PROVE IInv'
    BY <2>6, QueryPreserves
  <2>7. ASSUME NEW t \in Thread, QueryFails(t) PROVE IInv'
    BY <2>7, QueryFailsPreserves
  <2>8. ASSUME NEW t \in Thread, Store(t) PROVE IInv'
    BY <2>8, StorePreserves
  <2>9. ASSUME NEW t \in Thread, ReturnTable(t) PROVE IInv'
    BY <2>9, ReturnTablePreserves
  <2>10. ASSUME NEW t \in Thread, ReturnUpdate(t) PROVE IInv'
    BY <2>10, ReturnUpdatePreserves
  <2>11. ASSUME NEW t \in Thread, Replace(t) PROVE IInv'
    BY <2>11, ReplacePreserves
  <2>12. CASE clear
    BY <2>12, ClearPreserves
  <2>13. CASE clear_all
    <3>1. /\ names' = <<>> /\ schemas' = <<>> /\ tables' = <<>> /\ given' = {}
          /\ \A u \in Thread : pc'[u] = "idle"
      BY <2>13 DEF clear_all, Alone, Busy, Disciplined, Unlocked
    <3> QED
      BY <3>1 DEF IInv, Single, Busy, Named, Loading, Columns, Unique, Entries, HandleSound
  <2>14. CASE UNCHANGED vars
    BY <2>14 DEF vars, Inv, IInv, Single, Busy, Named, Loading, Columns, Unique, Entries,
                 HandleSound
  <2> QED
    BY <2>1, <2>2, <2>3, <2>4, <2>5, <2>6, <2>7, <2>8, <2>9, <2>10, <2>11, <2>12, <2>13,
       <2>14 DEF Next
<1> QED
  BY <1>1, <1>2 DEF Inv

\* The arrays are empty at first.
LEMMA InitEstablishes == Init => Inv
<1> SUFFICES ASSUME Init PROVE Inv
  OBVIOUS
<1>1. TypeOK
  BY InitTyped
<1>2. names = <<>> /\ schemas = <<>> /\ tables = <<>> /\ given = {}
      /\ \A u \in Thread : pc[u] = "idle"
  BY DEF Init
<1> QED
  BY <1>1, <1>2, EmptyIs DEF Inv

-----------------------------------------------------------------------------
(* The theorems                                                            *)

\* Where clients make the calls without mutex only while no other thread is in a call,
\* names, columns and tables stay aligned, for any number of threads and tables and any
\* failures of connections; a query that fails misaligns the columns only.
THEOREM AlignedCorrect == ASSUME Quiet = Unlocked PROVE Spec => []Aligned
<1>1. Inv => Aligned
  <2> SUFFICES ASSUME Inv, \A t \in Busy : pc[t] \in {"search", "replace", "connect"}
               PROVE  /\ Len(names) = Len(tables)
                      /\ \A i \in DOMAIN tables : names[i] \in {tables[i].name, NoName}
                      /\ ~failed => schemas = [i \in DOMAIN tables |-> tables[i].name]
    BY DEF Aligned
  <2>1. \A t \in Thread : ~Loading(t) /\ pc[t] # "store"
    BY DEF Busy, Loading
  <2>2. /\ Len(names) = Len(tables)
        /\ \A i \in DOMAIN tables : names[i] \in {tables[i].name, NoName}
    BY <2>1 DEF Inv, IInv, Named
  <2>3. ASSUME ~failed PROVE schemas = [i \in DOMAIN tables |-> tables[i].name]
    <3>1. Len(schemas) = Len(tables) /\ \A i \in DOMAIN tables : schemas[i] = tables[i].name
      BY <2>1, <2>3 DEF Inv, IInv, Columns
    <3>2. DOMAIN schemas = DOMAIN tables
      BY <3>1, Arrays DEF Inv
    <3>3. schemas = [i \in DOMAIN schemas |-> schemas[i]]
      <4>1. schemas \in [1 .. Len(schemas) -> Name]
        BY LenProperties DEF Inv, TypeOK
      <4> QED
        BY <4>1
    <3> QED
      BY <3>1, <3>2, <3>3
  <2> QED
    BY <2>2, <2>3
<1>2. Inv /\ [Next]_vars => Inv'
  BY StepPreserves DEF Disciplined
<1> QED
  BY <1>1, <1>2, InitEstablishes, PTL DEF Spec

\* Where clients keep to that discipline an index that get_table returned leads to the table
\* asked for, however often that table is refreshed after.
THEOREM HandleCorrect == ASSUME Quiet = Unlocked PROVE Spec => []HandleSound
<1>1. Inv => HandleSound
  BY DEF Inv, IInv
<1>2. Inv /\ [Next]_vars => Inv'
  BY StepPreserves DEF Disciplined
<1> QED
  BY <1>1, <1>2, InitEstablishes, PTL DEF Spec

\* A refresh that succeeds, from the state in which update_table returns.
LEMMA RefreshIs ==
    ASSUME Inv, Next, NEW t \in Thread, Refreshes(t), ~failed
    PROVE  LeadsToNew(t)
<1> USE DEF Refreshes
<1> DEFINE n == job[t].name
           new == Len(tables)
           past == job[t].replaces
<1>1. ReturnUpdate(t)
  <2>1. \A u \in Thread : u # t => pc[u] = "idle"
    BY OthersIdle
  <2>2. ASSUME NEW u \in Thread, NEW m \in Name, get_table(u, m) \/ update_table(u, m)
        PROVE  FALSE
    <3>1. pc[u] = "idle" /\ \E q \in Place \ {"idle"} : pc' = [pc EXCEPT ![u] = q]
      BY <2>2 DEF get_table, update_table, Place
    <3> QED
      BY <3>1
  <2>3. ASSUME NEW u \in Thread, Found(u) \/ NotFound(u) \/ ConnectFails(u) \/ Connect(u)
                  \/ Replace(u) \/ Query(u) \/ QueryFails(u) \/ Store(u) \/ ReturnTable(u)
        PROVE  FALSE
    BY <2>1, <2>3 DEF Found, NotFound, ConnectFails, Connect, Query, QueryFails, Store, Replace,
                          ReturnTable
  <2>4. ~clear /\ ~clear_all
    BY DEF clear, clear_all, Busy
  <2>5. ASSUME NEW u \in Thread, ReturnUpdate(u) PROVE u = t
    BY <2>1, <2>5 DEF ReturnUpdate
  <2> QED
    BY <2>2, <2>3, <2>4, <2>5 DEF Next
<1>2. names' = Expire(past)
  <2>1. job[t].ret = 0
    BY DEF Inv, IInv, Columns
  <2> QED
    BY <1>1, <2>1 DEF ReturnUpdate
<1>3. /\ new \in DOMAIN tables /\ new \in Nat /\ DOMAIN names = 1 .. new /\ Len(names) = new
      /\ new \in DOMAIN names
  <2>1. Len(names) = new
    BY OthersIdle DEF Inv, IInv, Named, Loading
  <2>2. new > 0
    BY DEF Inv, IInv, Named
  <2> QED
    BY <2>1, <2>2, Arrays DEF Inv
<1>4. tables[new] = [name |-> n, rows |-> "loaded"]
  <2>1. tables[new].name = n /\ tables[new].rows = "loaded"
    BY DEF Inv, IInv, Named, Columns
  <2>2. tables[new] \in TableData
    BY <1>3, Arrays DEF Inv
  <2> QED
    BY <2>1, <2>2 DEF TableData
<1>5. names[new] = n /\ n # NoName
  <2>1. names[new] = n
    BY <1>3 DEF Inv, IInv, Named
  <2>2. n \in Name
    BY DEF Inv, TypeOK, Job
  <2> QED
    BY <2>1, <2>2, ConfAssumption
<1>6. past < new
  BY <1>3 DEF Inv, IInv, Unique
<1>7. \A j \in DOMAIN names : names'[j] = IF j = past THEN NoName ELSE names[j]
  BY <1>2, ExpireIs DEF Inv
<1>8. names'[new] = n
  <2>1. new # past
    BY <1>6, <1>3 DEF Inv, TypeOK, Job
  <2> QED
    BY <1>3, <1>5, <1>7, <2>1
<1>9. ASSUME NEW i \in 1 .. new - 1 PROVE names'[i] # n
  <2> SUFFICES ASSUME names[i] = n, i # past PROVE FALSE
    BY <1>3, <1>5, <1>7
  <2>1. i \in DOMAIN names /\ i < new
    BY <1>3
  <2>2. PICK u \in Thread : (Loading(u) \/ pc[u] = "return") /\ i = job[u].replaces
    BY <1>3, <1>5, <2>1 DEF Inv, IInv, Unique
  <2>3. u = t
    BY <2>2, OthersIdle DEF Loading
  <2> QED
    BY <2>2, <2>3
<1> QED
  BY <1>4, <1>8, <1>9 DEF LeadsToNew

\* Where clients keep to that discipline and until a query fails, a refresh that returns
\* 0 makes the table's name lead to the new rows and to nothing else, also after
\* refreshes that could not connect.
THEOREM RefreshedCorrect == ASSUME Quiet = Unlocked PROVE Spec => Refreshed
<1>1. Inv /\ [Next]_vars => [\A t \in Thread : (Refreshes(t) /\ ~failed) => LeadsToNew(t)]_vars
  BY RefreshIs
<1>2. Inv /\ [Next]_vars => Inv'
  BY StepPreserves DEF Disciplined
<1> QED
  BY <1>1, <1>2, InitEstablishes, PTL DEF Spec, Refreshed
=============================================================================
