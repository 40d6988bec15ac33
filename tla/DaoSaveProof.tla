---------------------------- MODULE DaoSaveProof ----------------------------
(* Proofs about DaoSave: for any schema, rows and database, what save()    *)
(* does to the database with a transaction and without one.                  *)
EXTENDS DaoSave, NumberFacts, FiniteSetTheorems, SequenceTheorems, TLAPS

-----------------------------------------------------------------------------
(* The greatest and the next table                                         *)

\* Max is what it is called, where there is a greatest element.
LEMMA MaxIs ==
    ASSUME NEW S, \E x \in S : \A y \in S : y <= x, S \subseteq Int
    PROVE  Max(S) \in S /\ \A y \in S : y <= Max(S)
<1>1. \E x \in S : \A y \in S : x >= y
  OBVIOUS
<1> QED
  BY <1>1 DEF Max

\* The same of Min.
LEMMA MinIs ==
    ASSUME NEW S, S \subseteq Nat, S # {}
    PROVE  Min(S) \in S /\ \A y \in S : Min(S) <= y
<1>1. \E x \in S : \A y \in S : x <= y
  BY LeastExists
<1> QED
  BY <1>1 DEF Min

\* The last table.
LEMMA LastTable ==
    /\ Max(Table) \in Table
    /\ Max(Table) \in Nat
    /\ \A t \in Table : t \in Nat /\ t <= Max(Table)
<1>1. Table \subseteq Nat /\ Table \subseteq Int
  BY SaveAssumption
<1>2. \E t \in Table : \A u \in Table : u <= t
  BY DatabaseAssumption
<1>3. Max(Table) \in Table /\ \A t \in Table : t <= Max(Table)
  BY <1>1, <1>2, MaxIs
<1> QED
  BY <1>1, <1>3

\* NextTable leaves no table with data out.
LEMMA NextTableSkipsNone ==
    ASSUME NEW t \in Nat \union {-1}
    PROVE  /\ NextTable(t) \in HasData \union {Max(Table) + 1}
           /\ \A u \in HasData : u < NextTable(t) => u <= t
           /\ t <= Max(Table) => t < NextTable(t)
<1> DEFINE later == {x \in HasData : x > t}
<1>1. HasData \subseteq Table /\ \A u \in HasData : u \in Nat /\ u <= Max(Table)
  BY LastTable, SaveAssumption
<1>2. Max(Table) \in Nat
  BY LastTable
<1>3. CASE later = {}
  <2>1. NextTable(t) = Max(Table) + 1
    BY <1>3 DEF NextTable
  <2>2. \A u \in HasData : u <= t
    BY <1>1, <1>3
  <2> QED
    BY <1>2, <2>1, <2>2
<1>4. CASE later # {}
  <2>1. NextTable(t) = Min(later)
    BY <1>4 DEF NextTable
  <2>2. later \subseteq Nat
    BY <1>1
  <2> HIDE DEF later
  <2>3. Min(later) \in later /\ \A y \in later : Min(later) <= y
    BY <1>4, <2>2, MinIs
  <2> USE DEF later
  <2>4. \A u \in HasData : u < Min(later) => u <= t
    <3> SUFFICES ASSUME NEW u \in HasData, u < Min(later), u > t PROVE FALSE
      BY <1>1
    <3>1. u \in later /\ u \in Nat
      BY <1>1
    <3> HIDE DEF later
    <3>2. Min(later) \in Nat /\ Min(later) <= u
      BY <2>2, <2>3, <3>1
    <3> QED
      BY <3>1, <3>2
  <2> QED
    BY <1>1, <2>1, <2>3, <2>4
<1> QED
  BY <1>3, <1>4

-----------------------------------------------------------------------------
(* The rows that are loaded                                                *)

\* SetToSeq lists a finite set.
LEMMA SetToSeqLists ==
    ASSUME NEW S, IsFiniteSet(S)
    PROVE  /\ SetToSeq(S) \in Seq(S)
           /\ \A x \in S : \E i \in DOMAIN SetToSeq(S) : SetToSeq(S)[i] = x
<1> DEFINE D == 1 .. Cardinality(S)
           f == SetToSeq(S)
<1>1. Cardinality(S) \in Nat /\ ExistsBijection(D, S)
  BY FS_CardinalityType
<1>2. PICK g \in [D -> S] : IsInjective(g)
  BY <1>1 DEF ExistsBijection, Bijection, Injection, IsInjective
<1>3. f \in [D -> S] /\ IsInjective(f)
  BY <1>2 DEF SetToSeq
<1>4. f \in Injection(D, S)
  BY <1>3 DEF Injection, IsInjective
<1>5. f \in Surjection(D, S)
  <2>1. IsFiniteSet(D) /\ Cardinality(D) = Cardinality(S)
    BY <1>1, FS_Interval
  <2> HIDE DEF D, f
  <2> QED
    BY <1>4, <2>1, FS_Injection
<1>6. f \in Seq(S)
  BY <1>1, <1>3, SeqDef
<1> QED
  BY <1>3, <1>5, <1>6 DEF Surjection

Database == [Table -> [Key -> Val \union {None}]]

\* The rows of all tables, numbered through: the file's and then the added ones.
LEMMA MemIs ==
    ASSUME NEW a \in [Table -> Seq(MemRow)], NEW q \in [Table -> Seq(MemRow)],
           NEW t \in Table
    PROVE  /\ a[t] \o q[t] \in Seq(MemRow)
           /\ Len(a[t]) \in Nat /\ Len(q[t]) \in Nat
           /\ Len(a[t] \o q[t]) = Len(a[t]) + Len(q[t])
           /\ DOMAIN (a[t] \o q[t]) = 1 .. Len(a[t]) + Len(q[t])
           /\ \A i \in 1 .. Len(a[t]) + Len(q[t]) :
                (a[t] \o q[t])[i] = IF i <= Len(a[t]) THEN a[t][i] ELSE q[t][i - Len(a[t])]
<1>1. a[t] \in Seq(MemRow) /\ q[t] \in Seq(MemRow)
  OBVIOUS
<1>2. Len(a[t]) \in Nat /\ Len(q[t]) \in Nat
  BY <1>1, LenProperties
<1>3. /\ a[t] \o q[t] \in Seq(MemRow)
      /\ Len(a[t] \o q[t]) = Len(a[t]) + Len(q[t])
      /\ \A i \in 1 .. Len(a[t]) + Len(q[t]) :
            (a[t] \o q[t])[i] = IF i <= Len(a[t]) THEN a[t][i] ELSE q[t][i - Len(a[t])]
  BY <1>1, ConcatProperties
<1>4. DOMAIN (a[t] \o q[t]) = 1 .. Len(a[t] \o q[t])
  BY <1>3, LenProperties
<1> QED
  BY <1>2, <1>3, <1>4

\* What a new process loads: for each table with data all that the database holds,
\* and nothing changed.
LEMMA ReloadedIsStored ==
    ASSUME NEW d \in Database
    PROVE  /\ Reloaded(d) \in [Table -> Seq(MemRow)]
           /\ \A t \in Table, k \in Key : Atomic!Touched(Reloaded(d), t, k) = {}
           /\ \A t \in HasData, k \in Key : Values(Reloaded(d), t, k) = {d[t][k]} \ {None}
<1>1. Reloaded(d) = [t \in Table |-> SetToSeq(Stored(d, t))]
  BY DEF Reloaded
<1>2. ASSUME NEW t \in Table
      PROVE  /\ SetToSeq(Stored(d, t)) \in Seq(Stored(d, t))
             /\ \A x \in Stored(d, t) : \E i \in DOMAIN SetToSeq(Stored(d, t)) :
                    SetToSeq(Stored(d, t))[i] = x
  <2> DEFINE row(k) == [key |-> k, val |-> d[t][k], stat |-> "NORMAL_ROW"]
             keys == {x \in Key : t \in HasData /\ d[t][x] # None}
  <2>1. IsFiniteSet(keys)
    BY DatabaseAssumption, FS_Subset
  <2>2. [k \in keys |-> row(k)] \in Surjection(keys, {row(k) : k \in keys})
    BY DEF Surjection
  <2>3. IsFiniteSet(Stored(d, t))
    <3> HIDE DEF keys
    <3>1. IsFiniteSet({row(k) : k \in keys})
      BY <2>1, <2>2, FS_Surjection
    <3> QED
      BY <3>1 DEF Stored, keys
  <2> QED
    BY <2>3, SetToSeqLists
<1>3. ASSUME NEW t \in Table
      PROVE  \A x \in Stored(d, t) : x \in MemRow /\ x.stat = "NORMAL_ROW" /\ x.val = d[t][x.key]
                                     /\ d[t][x.key] # None
  <2> SUFFICES ASSUME NEW k \in Key, t \in HasData, d[t][k] # None
               PROVE  [key |-> k, val |-> d[t][k], stat |-> "NORMAL_ROW"] \in MemRow
    BY DEF Stored
  <2>1. d[t][k] \in Val
    BY DEF Database
  <2> QED
    BY <2>1 DEF MemRow
<1>4. ASSUME NEW t \in Table
      PROVE  \A i \in DOMAIN Reloaded(d)[t] : Reloaded(d)[t][i] \in Stored(d, t)
  BY <1>1, <1>2, ElementOfSeq
<1>5. Reloaded(d) \in [Table -> Seq(MemRow)]
  <2>1. ASSUME NEW t \in Table PROVE SetToSeq(Stored(d, t)) \in Seq(MemRow)
    <3>1. Stored(d, t) \subseteq MemRow
      BY <1>3
    <3> QED
      BY <1>2, <3>1, SeqMonotonic
  <2> QED
    BY <1>1, <2>1
<1>6. ASSUME NEW t \in Table, NEW k \in Key
      PROVE  Atomic!Touched(Reloaded(d), t, k) = {}
  BY <1>3, <1>4 DEF Atomic!Touched
<1>7. ASSUME NEW t \in HasData, NEW k \in Key
      PROVE  Values(Reloaded(d), t, k) = {d[t][k]} \ {None}
  <2> DEFINE m == Reloaded(d)[t]
             here == {j \in DOMAIN m : m[j].key = k}
  <2>0. t \in Table
    BY SaveAssumption
  <2>1. \A i \in here : m[i].val = d[t][k] /\ d[t][k] # None
    BY <1>3, <1>4, <2>0
  <2>2. ASSUME d[t][k] # None PROVE \E i \in here : m[i].val = d[t][k]
    <3> DEFINE row == [key |-> k, val |-> d[t][k], stat |-> "NORMAL_ROW"]
    <3>1. row \in Stored(d, t)
      BY <2>2 DEF Stored
    <3>2. PICK i \in DOMAIN m : m[i] = row
      BY <1>1, <1>2, <2>0, <3>1
    <3> QED
      BY <3>2
  <2> HIDE DEF here, m
  <2>3. {m[i].val : i \in here} = {d[t][k]} \ {None}
    BY <2>1, <2>2
  <2> QED
    BY <2>3 DEF m, here, Values
<1> QED
  BY <1>5, <1>6, <1>7

\* The rows in memory are those of d.
Fresh(d, a, q) ==
    /\ a \in [Table -> Seq(MemRow)] /\ q \in [Table -> Seq(MemRow)]
    /\ [t \in Table |-> a[t] \o q[t]] = Reloaded(d)

\* A process that has just loaded the database has no added rows.
LEMMA FreshMem ==
    ASSUME NEW d \in Database, NEW a, NEW q,
           a = Reloaded(d), q = [t \in Table |-> <<>>]
    PROVE  Fresh(d, a, q)
<1>1. Reloaded(d) \in [Table -> Seq(MemRow)]
  BY ReloadedIsStored
<1>2. q \in [Table -> Seq(MemRow)]
  <2>1. <<>> \in Seq(MemRow)
    OBVIOUS
  <2> QED
    BY <2>1
<1>3. ASSUME NEW t \in Table PROVE a[t] \o q[t] = a[t]
  <2>1. a[t] \in Seq(MemRow) /\ q[t] = <<>>
    BY <1>1
  <2> QED
    BY <2>1, ConcatEmptySeq
<1>4. a = [t \in Table |-> a[t]]
  BY <1>1
<1>5. [t \in Table |-> a[t] \o q[t]] = Reloaded(d)
  BY <1>3, <1>4
<1> QED
  BY <1>1, <1>2, <1>5 DEF Fresh

-----------------------------------------------------------------------------
(* The inductive invariant                                                 *)

\* What the connection is to see of a row that was sent.
Sent(row) == IF row.stat = "DELETE_ROW" THEN None ELSE row.val

\* The changed rows of key k in table t that the loop has passed.
Done(t, k) ==
    {i \in Atomic!Touched(mem, t, k) : t < at[1] \/ (t = at[1] /\ i <= at[2])}

\* While no statement has failed the connection sees, for each key with changed
\* rows behind the loop, the last of them, but for a key just deleted to be
\* inserted again.
Progress ==
    pc \in {"rows", "insert"} \/ (pc = "end" /\ ~ret) =>
        \A t \in HasData, k \in Key : \A i \in Done(t, k) :
            (\A j \in Done(t, k) : j <= i) =>
                \/ tx[t][k] = Sent(mem[t][i])
                \/ pc = "insert" /\ t = at[1] /\ k = Row.key

\* Also a transaction left open by an earlier commit changes only the rows of
\* keys that some row in memory was changed for.
Untouched ==
    \A t \in Table, k \in Key :
        (t \in HasData => Atomic!Touched(mem, t, k) = {}) => tx[t][k] = db[t][k]

\* Between its two statements the loop stands at a changed row.
AtInsert == pc = "insert" => AtRow /\ Row.stat = "UPDATE_ROW"

\* save() commits when the loop is past all tables.
AtEnd == pc = "end" /\ ~ret => at[1] = Max(Table) + 1

IInv == TypeOK /\ Progress /\ Untouched /\ AtInsert /\ AtEnd /\ Agreement

\* The rows in memory are rows.
LEMMA MemType ==
    ASSUME TypeOK
    PROVE  mem \in [Table -> Seq(MemRow)]
<1>1. ASSUME NEW t \in Table PROVE array[t] \o deque[t] \in Seq(MemRow)
  BY MemIs DEF TypeOK
<1> QED
  BY <1>1 DEF mem

\* A process starts with the rows of the database and no transaction.
LEMMA InitEstablishes == Init => IInv
<1> SUFFICES ASSUME Init PROVE IInv
  OBVIOUS
<1>1. db \in Database /\ tx = db /\ pc = "idle"
  BY DEF Init, Database
<1>2. /\ array \in [Table -> Seq(MemRow)] /\ deque \in [Table -> Seq(MemRow)]
      /\ mem = Reloaded(db)
  <2>1. Fresh(db, array, deque)
    BY <1>1, FreshMem DEF Init
  <2> QED
    BY <2>1 DEF Fresh, mem
<1>3. TypeOK
  <2>1. at \in (HasData \union {Max(Table) + 1}) \X Nat
    BY DEF Init, Past
  <2> QED
    BY <1>1, <1>2, <2>1 DEF Init, TypeOK, Database
<1>4. Agreement
  <2>1. \A t \in HasData, k \in Key : Values(mem, t, k) = {db[t][k]} \ {None}
    BY <1>1, <1>2, ReloadedIsStored
  <2> QED
    BY <2>1 DEF Agreement
<1> QED
  BY <1>1, <1>3, <1>4 DEF IInv, Progress, Untouched, AtInsert, AtEnd

-----------------------------------------------------------------------------
(* The client's steps                                                      *)

\* A step of the client leaves alone the rows of each key it changes no row of.
Edited(m, n) ==
    \A t \in Table, k \in Key :
        Atomic!Touched(n, t, k) = {} =>
            Atomic!Touched(m, t, k) = {} /\ Values(n, t, k) = Values(m, t, k)

\* No save is under way when the client changes rows.
LEMMA EditPreserves ==
    ASSUME IInv, Edit, Edited(mem, mem'),
           array' \in [Table -> Seq(MemRow)], deque' \in [Table -> Seq(MemRow)]
    PROVE  IInv'
<1>1. TypeOK'
  BY DEF IInv, TypeOK, Edit
<1>2. Progress' /\ AtInsert' /\ AtEnd'
  BY DEF Progress, AtInsert, AtEnd, Edit
<1>3. Untouched'
  BY DEF IInv, Untouched, Edited, Edit
<1>4. Agreement'
  BY SaveAssumption DEF IInv, Agreement, Edited, Edit
<1> QED
  BY <1>1, <1>2, <1>3, <1>4 DEF IInv

\* One row of table t, the i-th, is a new one, or another with the key it had, and
\* counts as changed.
OneRowNew(m, n, t, i, row) ==
    /\ row.stat # "NORMAL_ROW"
    /\ \A u \in Table : u # t => n[u] = m[u]
    /\ n[t][i] = row
    /\ DOMAIN n[t] = DOMAIN m[t] \union {i}
    /\ i \in DOMAIN m[t] => m[t][i].key = row.key
    /\ \A j \in DOMAIN m[t] : j # i => n[t][j] = m[t][j]

\* The keys of other rows are left alone.
LEMMA OneRowEdits ==
    ASSUME NEW m, NEW n, NEW t \in Table, NEW i, NEW row, OneRowNew(m, n, t, i, row)
    PROVE  Edited(m, n)
<1>0. /\ row.stat # "NORMAL_ROW"
      /\ \A u \in Table : u # t => n[u] = m[u]
      /\ n[t][i] = row
      /\ DOMAIN n[t] = DOMAIN m[t] \union {i}
      /\ i \in DOMAIN m[t] => m[t][i].key = row.key
      /\ \A j \in DOMAIN m[t] : j # i => n[t][j] = m[t][j]
  BY DEF OneRowNew
<1>1. ASSUME NEW k \in Key, Atomic!Touched(n, t, k) = {}
      PROVE  Atomic!Touched(m, t, k) = {} /\ Values(n, t, k) = Values(m, t, k)
  <2>1. row.key # k
    BY <1>0, <1>1 DEF Atomic!Touched
  <2>2. {j \in DOMAIN n[t] : n[t][j].key = k} = {j \in DOMAIN m[t] : m[t][j].key = k}
    BY <1>0, <2>1
  <2>3. \A j \in {x \in DOMAIN m[t] : m[t][x].key = k} : n[t][j] = m[t][j]
    BY <1>0, <2>1
  <2>4. Values(n, t, k) = Values(m, t, k)
    BY <2>2, <2>3 DEF Values
  <2>5. Atomic!Touched(m, t, k) = {}
    BY <1>0, <1>1, <2>1 DEF Atomic!Touched
  <2> QED
    BY <2>4, <2>5
<1>2. ASSUME NEW u \in Table, u # t, NEW k \in Key
      PROVE  /\ Atomic!Touched(n, u, k) = Atomic!Touched(m, u, k)
             /\ Values(n, u, k) = Values(m, u, k)
  BY <1>0, <1>2 DEF Atomic!Touched, Values
<1> QED
  BY <1>1, <1>2 DEF Edited

\* An added row counts as changed from the start.
LEMMA AddRowPreserves ==
    ASSUME IInv, NEW t \in Table, NEW k \in Key, NEW v \in Val, AddRow(t, k, v)
    PROVE  IInv'
<1> DEFINE row == [key |-> k, val |-> v, stat |-> "UPDATE_ROW"]
<1>1. row \in MemRow /\ row.stat # "NORMAL_ROW"
  BY DEF MemRow
<1>2. array \in [Table -> Seq(MemRow)] /\ deque \in [Table -> Seq(MemRow)] /\ Edit
  BY DEF IInv, TypeOK, AddRow
<1>3. array' = array /\ deque' = [deque EXCEPT ![t] = Append(@, row)]
  BY DEF AddRow
<1> HIDE DEF row
<1>4. /\ Append(deque[t], row) \in Seq(MemRow)
      /\ Len(Append(deque[t], row)) = Len(deque[t]) + 1
      /\ \A i \in 1 .. Len(deque[t]) : Append(deque[t], row)[i] = deque[t][i]
      /\ Append(deque[t], row)[Len(deque[t]) + 1] = row
  BY <1>1, <1>2, AppendProperties
<1> DEFINE added == Append(deque[t], row)
           n == Len(deque[t])
           f == Len(array[t])
<1>5. deque' \in [Table -> Seq(MemRow)] /\ deque'[t] = added
  BY <1>2, <1>3, <1>4
<1>6. /\ f \in Nat /\ n \in Nat
      /\ DOMAIN mem[t] = 1 .. f + n
      /\ \A i \in 1 .. f + n : mem[t][i] = IF i <= f THEN array[t][i] ELSE deque[t][i - f]
  BY <1>2, MemIs DEF mem
<1>7. /\ DOMAIN mem'[t] = 1 .. f + Len(deque'[t])
      /\ \A i \in 1 .. f + Len(deque'[t]) :
            mem'[t][i] = IF i <= f THEN array[t][i] ELSE deque'[t][i - f]
  <2> DEFINE q == deque'
  <2>1. q \in [Table -> Seq(MemRow)] /\ mem'[t] = array[t] \o q[t]
    BY <1>3, <1>5 DEF mem
  <2> HIDE DEF q
  <2>2. /\ DOMAIN (array[t] \o q[t]) = 1 .. f + Len(q[t])
        /\ \A i \in 1 .. f + Len(q[t]) :
              (array[t] \o q[t])[i] = IF i <= f THEN array[t][i] ELSE q[t][i - f]
    BY <1>2, <2>1, MemIs
  <2> QED
    BY <2>1, <2>2 DEF q
<1>8. \A u \in Table : u # t => mem'[u] = mem[u]
  BY <1>2, <1>3 DEF mem
<1>9. Len(added) = n + 1 /\ added[n + 1] = row /\ \A i \in 1 .. n : added[i] = deque[t][i]
  BY <1>4
<1> HIDE DEF added, n, f
<1>10. /\ DOMAIN mem'[t] = 1 .. f + (n + 1)
       /\ \A i \in 1 .. f + (n + 1) :
            mem'[t][i] = IF i <= f THEN array[t][i] ELSE added[i - f]
  BY <1>5, <1>7, <1>9
<1>11. mem'[t][f + n + 1] = row /\ DOMAIN mem'[t] = DOMAIN mem[t] \union {f + n + 1}
       /\ f + n + 1 \notin DOMAIN mem[t]
  <2>1. f + n + 1 \in 1 .. f + (n + 1) /\ ~(f + n + 1 <= f) /\ f + n + 1 - f = n + 1
    BY <1>6
  <2>2. 1 .. f + (n + 1) = 1 .. f + n \union {f + n + 1} /\ f + n + 1 \notin 1 .. f + n
    BY <1>6
  <2> QED
    BY <1>6, <1>9, <1>10, <2>1, <2>2
<1>12. \A j \in 1 .. f + n : mem'[t][j] = mem[t][j]
  <2> SUFFICES ASSUME NEW j \in 1 .. f + n PROVE mem'[t][j] = mem[t][j]
    OBVIOUS
  <2>1. j \in 1 .. f + (n + 1)
    BY <1>6
  <2>2. CASE j <= f
    BY <1>6, <1>10, <2>1, <2>2
  <2>3. CASE ~(j <= f)
    <3>1. j - f \in 1 .. n
      BY <1>6, <2>3
    <3> QED
      BY <1>6, <1>9, <1>10, <2>1, <2>3, <3>1
  <2> QED
    BY <2>2, <2>3
<1>13. Edited(mem, mem')
  <2>1. OneRowNew(mem, mem', t, f + n + 1, row)
    BY <1>1, <1>6, <1>8, <1>11, <1>12 DEF OneRowNew
  <2> QED
    BY <2>1, OneRowEdits
<1> QED
  BY <1>2, <1>3, <1>5, <1>13, EditPreserves

\* So does a row that is replaced.
LEMMA ReplacePreserves ==
    ASSUME IInv, Edit, NEW t \in Table, NEW i \in DOMAIN mem[t], NEW row \in MemRow,
           row.key = mem[t][i].key, row.stat # "NORMAL_ROW", Replace(t, i, row)
    PROVE  IInv'
<1> DEFINE fileLen == Len(array[t])
<1>1. array \in [Table -> Seq(MemRow)] /\ deque \in [Table -> Seq(MemRow)]
  BY DEF IInv, TypeOK
<1>2. /\ fileLen \in Nat /\ Len(deque[t]) \in Nat
      /\ DOMAIN mem[t] = 1 .. fileLen + Len(deque[t])
      /\ \A j \in 1 .. fileLen + Len(deque[t]) :
            mem[t][j] = IF j <= fileLen THEN array[t][j] ELSE deque[t][j - fileLen]
  BY <1>1, MemIs DEF mem
<1>3. /\ array' \in [Table -> Seq(MemRow)] /\ deque' \in [Table -> Seq(MemRow)]
      /\ \A u \in Table : u # t => array'[u] = array[u] /\ deque'[u] = deque[u]
      /\ Len(array'[t]) = fileLen /\ Len(deque'[t]) = Len(deque[t])
      /\ \A j \in 1 .. fileLen : array'[t][j] = IF j = i THEN row ELSE array[t][j]
      /\ \A j \in 1 .. Len(deque[t]) :
            deque'[t][j] = IF j + fileLen = i THEN row ELSE deque[t][j]
  <2>1. CASE /\ i <= fileLen
             /\ array' = [array EXCEPT ![t] = [@ EXCEPT ![i] = row]]
             /\ deque' = deque
    <3>1. i \in 1 .. fileLen /\ array[t] \in Seq(MemRow)
      BY <1>1, <1>2, <2>1
    <3>2. /\ [array[t] EXCEPT ![i] = row] \in Seq(MemRow)
          /\ Len([array[t] EXCEPT ![i] = row]) = fileLen
          /\ \A j \in 1 .. fileLen :
                [array[t] EXCEPT ![i] = row][j] = IF j = i THEN row ELSE array[t][j]
      BY <3>1, ExceptSeq
    <3>3. array'[t] = [array[t] EXCEPT ![i] = row]
      BY <1>1, <2>1
    <3>4. array' \in [Table -> Seq(MemRow)]
      BY <1>1, <2>1, <3>2
    <3>5. \A j \in 1 .. Len(deque[t]) : j + fileLen # i
      BY <1>2, <3>1
    <3> HIDE DEF fileLen
    <3> QED
      BY <1>1, <2>1, <3>2, <3>3, <3>4, <3>5
  <2>2. CASE /\ i > fileLen
             /\ deque' = [deque EXCEPT ![t] = [@ EXCEPT ![i - fileLen] = row]]
             /\ array' = array
    <3> DEFINE c == i - fileLen
    <3>1. c \in 1 .. Len(deque[t]) /\ deque[t] \in Seq(MemRow)
      BY <1>1, <1>2, <2>2
    <3>2. /\ [deque[t] EXCEPT ![c] = row] \in Seq(MemRow)
          /\ Len([deque[t] EXCEPT ![c] = row]) = Len(deque[t])
          /\ \A j \in 1 .. Len(deque[t]) :
                [deque[t] EXCEPT ![c] = row][j] = IF j = c THEN row ELSE deque[t][j]
      <4> HIDE DEF c
      <4> QED
        BY <3>1, ExceptSeq
    <3>3. deque'[t] = [deque[t] EXCEPT ![c] = row]
      BY <1>1, <2>2
    <3>4. deque' \in [Table -> Seq(MemRow)]
      BY <1>1, <2>2, <3>2
    <3>5. /\ \A j \in 1 .. Len(deque[t]) : j = c <=> j + fileLen = i
          /\ \A j \in 1 .. fileLen : j # i
      BY <1>2, <2>2
    <3> HIDE DEF fileLen, c
    <3> QED
      BY <1>1, <2>2, <3>2, <3>3, <3>4, <3>5 DEF fileLen
  <2> QED
    BY <2>1, <2>2 DEF Replace
<1>4. /\ DOMAIN mem'[t] = 1 .. fileLen + Len(deque[t])
      /\ \A j \in 1 .. fileLen + Len(deque[t]) :
            mem'[t][j] = IF j <= fileLen THEN array'[t][j] ELSE deque'[t][j - fileLen]
  <2>1. /\ DOMAIN mem'[t] = 1 .. Len(array'[t]) + Len(deque'[t])
        /\ \A j \in 1 .. Len(array'[t]) + Len(deque'[t]) :
              mem'[t][j] = IF j <= Len(array'[t]) THEN array'[t][j]
                           ELSE deque'[t][j - Len(array'[t])]
    BY <1>3, MemIs DEF mem
  <2> QED
    BY <1>3, <2>1
<1> HIDE DEF fileLen
<1>5. \A u \in Table : u # t => mem'[u] = mem[u]
  BY <1>3 DEF mem
<1>6. \A j \in 1 .. fileLen + Len(deque[t]) : mem'[t][j] = IF j = i THEN row ELSE mem[t][j]
  <2> SUFFICES ASSUME NEW j \in 1 .. fileLen + Len(deque[t])
               PROVE  mem'[t][j] = IF j = i THEN row ELSE mem[t][j]
    OBVIOUS
  <2>1. CASE j <= fileLen
    <3>1. j \in 1 .. fileLen
      BY <1>2, <2>1
    <3> QED
      BY <1>2, <1>3, <1>4, <2>1, <3>1
  <2>2. CASE ~(j <= fileLen)
    <3>1. j - fileLen \in 1 .. Len(deque[t]) /\ (j - fileLen) + fileLen = j
      BY <1>2, <2>2
    <3>2. deque'[t][j - fileLen] = IF j = i THEN row ELSE deque[t][j - fileLen]
      BY <1>3, <3>1
    <3> QED
      BY <1>2, <1>4, <2>2, <3>2
  <2> QED
    BY <2>1, <2>2
<1>7. /\ mem'[t][i] = row
      /\ DOMAIN mem'[t] = DOMAIN mem[t] \union {i}
      /\ \A j \in DOMAIN mem[t] : j # i => mem'[t][j] = mem[t][j]
  BY <1>2, <1>4, <1>6
<1>8. Edited(mem, mem')
  <2>1. OneRowNew(mem, mem', t, i, row)
    BY <1>5, <1>7 DEF OneRowNew
  <2> QED
    BY <2>1, OneRowEdits
<1> QED
  BY <1>3, <1>8, EditPreserves

\* A row whose column is set keeps its key.
LEMMA ChangeRowPreserves ==
    ASSUME IInv, NEW t \in Table, NEW i \in DOMAIN mem[t], NEW v \in Val, ChangeRow(t, i, v)
    PROVE  IInv'
<1> DEFINE row == [mem[t][i] EXCEPT !.val = v, !.stat = "UPDATE_ROW"]
<1>1. mem \in [Table -> Seq(MemRow)]
  BY MemType DEF IInv
<1>2. mem[t][i] \in MemRow
  BY <1>1, ElementOfSeq, LenProperties
<1>3. row \in MemRow /\ row.key = mem[t][i].key /\ row.stat # "NORMAL_ROW"
  BY <1>2 DEF MemRow
<1>4. Replace(t, i, row) /\ Edit
  BY DEF ChangeRow
<1> HIDE DEF row
<1> QED
  BY <1>3, <1>4, ReplacePreserves

\* So does a deleted one.
LEMMA DeleteRowPreserves ==
    ASSUME IInv, NEW t \in Table, NEW i \in DOMAIN mem[t], DeleteRow(t, i)
    PROVE  IInv'
<1> DEFINE row == [mem[t][i] EXCEPT !.stat = "DELETE_ROW"]
<1>1. mem \in [Table -> Seq(MemRow)]
  BY MemType DEF IInv
<1>2. mem[t][i] \in MemRow
  BY <1>1, ElementOfSeq, LenProperties
<1>3. row \in MemRow /\ row.key = mem[t][i].key /\ row.stat # "NORMAL_ROW"
  BY <1>2 DEF MemRow
<1>4. Replace(t, i, row) /\ Edit
  BY DEF DeleteRow
<1> HIDE DEF row
<1> QED
  BY <1>3, <1>4, ReplacePreserves

-----------------------------------------------------------------------------
(* The steps of save()                                                     *)

\* Touched names rows by their numbers.
LEMMA TouchedType ==
    ASSUME TypeOK, NEW t \in Table, NEW k \in Key
    PROVE  Atomic!Touched(mem, t, k) \subseteq 1 .. Len(mem[t]) /\ Len(mem[t]) \in Nat
<1>1. mem[t] \in Seq(MemRow)
  BY MemType
<1> QED
  BY <1>1, LenProperties DEF Atomic!Touched

\* The loop stands at a number of a table, and at a number of a row.
LEMMA PlaceType ==
    ASSUME TypeOK
    PROVE  /\ at = <<at[1], at[2]>>
           /\ at[1] \in HasData \union {Max(Table) + 1}
           /\ at[1] \in Nat /\ at[2] \in Nat
<1>1. /\ at = <<at[1], at[2]>>
      /\ at[1] \in HasData \union {Max(Table) + 1}
      /\ at[2] \in Nat
  BY DEF TypeOK
<1> QED
  BY <1>1, LastTable, SaveAssumption

\* The iterator hands out the rows in the order of their numbers, and ends after the
\* last one.
LEMMA RowAtIs ==
    ASSUME TypeOK, NEW t \in Table, NEW i \in Nat
    PROVE  /\ More(t, i) <=> i + 1 <= Len(mem[t])
           /\ More(t, i) => /\ i + 1 \in DOMAIN mem[t]
                            /\ RowAt(t, i) = mem[t][i + 1]
                            /\ RowAt(t, i) \in MemRow
<1> DEFINE f == Len(array[t])
           n == Len(deque[t])
<1>1. /\ mem[t] \in Seq(MemRow)
      /\ f \in Nat /\ n \in Nat
      /\ Len(mem[t]) = f + n
      /\ DOMAIN mem[t] = 1 .. f + n
      /\ \A j \in 1 .. f + n : mem[t][j] = IF j <= f THEN array[t][j] ELSE deque[t][j - f]
  BY MemIs DEF TypeOK, mem
<1>2. /\ More(t, i) <=> (i < f \/ i - f < n)
      /\ RowAt(t, i) = IF i < f THEN array[t][i + 1] ELSE deque[t][i - f + 1]
  BY DEF More, RowAt
<1> HIDE DEF f, n
<1>3. More(t, i) <=> i + 1 <= Len(mem[t])
  BY <1>1, <1>2
<1>4. ASSUME More(t, i)
      PROVE  i + 1 \in DOMAIN mem[t] /\ RowAt(t, i) = mem[t][i + 1] /\ RowAt(t, i) \in MemRow
  <2>1. i + 1 \in 1 .. f + n
    BY <1>1, <1>3, <1>4
  <2>2. (i < f <=> i + 1 <= f) /\ (i + 1) - f = i - f + 1
    BY <1>1
  <2>3. RowAt(t, i) = mem[t][i + 1]
    BY <1>1, <1>2, <2>1, <2>2
  <2>4. mem[t][i + 1] \in MemRow
    BY <1>1, <2>1, ElementOfSeq
  <2> QED
    BY <1>1, <2>1, <2>3, <2>4
<1> QED
  BY <1>3, <1>4

\* The same of the row that the loop is at.
LEMMA IteratorIs ==
    ASSUME TypeOK, at[1] \in HasData
    PROVE  /\ at[1] \in Table /\ at[1] \in Nat /\ at[2] \in Nat
           /\ More(at[1], at[2]) <=> at[2] + 1 <= Len(mem[at[1]])
           /\ AtRow => /\ at[2] + 1 \in DOMAIN mem[at[1]]
                       /\ Row = mem[at[1]][at[2] + 1]
                       /\ Row \in MemRow
<1>1. at[1] \in Table /\ at[1] \in Nat /\ at[2] \in Nat
  BY PlaceType, SaveAssumption
<1> QED
  BY <1>1, RowAtIs DEF AtRow, Row

\* The loop starts before all rows, with a transaction or without.
LEMMA BeginPreserves ==
    ASSUME IInv, Begin
    PROVE  IInv'
<1>1. TypeOK /\ UNCHANGED <<array, deque, mem, db, msg, tx>>
  BY DEF IInv, Begin, rows, mem
<1>2. at' = <<NextTable(-1), 0>> /\ pc' = "rows" /\ open' \in {open, TRUE} /\ ret' = FALSE
  BY DEF Begin
<1>3. /\ NextTable(-1) \in HasData \union {Max(Table) + 1}
      /\ \A u \in HasData : u < NextTable(-1) => u <= -1
  BY NextTableSkipsNone
<1>4. TypeOK'
  <2>1. at' \in (HasData \union {Max(Table) + 1}) \X Nat
    BY <1>2, <1>3
  <2>2. open' \in BOOLEAN /\ (~open' => tx' = db')
    BY <1>1, <1>2 DEF TypeOK
  <2> QED
    BY <1>1, <1>2, <2>1, <2>2 DEF TypeOK
<1>5. Progress'
  <2>1. ASSUME NEW t \in HasData, NEW k \in Key
        PROVE  Done(t, k)' = {}
    <3>1. t \in Nat /\ t \in Table
      BY SaveAssumption
    <3>2. ~(t < at'[1])
      BY <1>2, <1>3, <3>1
    <3>3. \A i \in Atomic!Touched(mem, t, k) : ~(i <= at'[2])
      BY <1>1, <1>2, <3>1, TouchedType
    <3> QED
      BY <1>1, <3>2, <3>3 DEF Done
  <2> QED
    BY <2>1 DEF Progress
<1>6. Untouched' /\ Agreement' /\ AtEnd' /\ AtInsert'
  BY <1>1, <1>2 DEF IInv, Untouched, Agreement, AtEnd, AtInsert
<1> QED
  BY <1>4, <1>5, <1>6 DEF IInv

\* Going to the next table passes no row that is not sent.
LEMMA EndOfTablePreserves ==
    ASSUME IInv, EndOfTable
    PROVE  IInv'
<1>1. TypeOK /\ UNCHANGED <<array, deque, mem, db, ret, msg, open, tx>> /\ pc = "rows"
  BY DEF IInv, EndOfTable, rows, mem
<1>2. Untouched' /\ Agreement'
  BY <1>1 DEF IInv, Untouched, Agreement
<1>3. at[1] \in Nat /\ at[1] \in HasData \union {Max(Table) + 1}
  BY <1>1, PlaceType
<1>4. CASE at[1] \in HasData /\ at' = <<NextTable(at[1]), 0>> /\ UNCHANGED pc
  <2>1. /\ NextTable(at[1]) \in HasData \union {Max(Table) + 1}
        /\ \A u \in HasData : u < NextTable(at[1]) => u <= at[1]
    BY <1>3, NextTableSkipsNone
  <2>2. TypeOK'
    <3>1. at' \in (HasData \union {Max(Table) + 1}) \X Nat
      BY <1>4, <2>1
    <3> QED
      BY <1>1, <1>4, <3>1 DEF TypeOK
  <2>3. ASSUME NEW t \in HasData, NEW k \in Key
        PROVE  Done(t, k)' = Done(t, k)
    <3>1. t \in Nat /\ t \in Table
      BY SaveAssumption
    <3>2. Atomic!Touched(mem, t, k) \subseteq 1 .. Len(mem[t]) /\ Len(mem[t]) \in Nat
      BY <1>1, <3>1, TouchedType
    <3>3. /\ at' = <<NextTable(at[1]), 0>> /\ at[2] \in Nat
          /\ NextTable(at[1]) \in Nat
      <4>1. NextTable(at[1]) \in Nat
        <5>1. HasData \subseteq Nat /\ Max(Table) + 1 \in Nat
          BY LastTable, SaveAssumption
        <5> QED
          BY <2>1, <5>1
      <4> QED
        BY <1>1, <1>4, <4>1, PlaceType
    <3>4. t < NextTable(at[1]) => t <= at[1]
      BY <2>1
    <3>5. t <= at[1] => t < NextTable(at[1])
      <4>1. at[1] <= Max(Table) /\ at[1] \in Nat \union {-1}
        BY <1>3, <1>4, LastTable, SaveAssumption
      <4>2. at[1] < NextTable(at[1])
        BY <4>1, NextTableSkipsNone
      <4> QED
        BY <1>3, <3>1, <3>3, <4>2
    <3>6. Len(mem[at[1]]) <= at[2]
      <4>1. ~(at[2] + 1 <= Len(mem[at[1]])) /\ at[1] \in Table
        BY <1>1, <1>4, IteratorIs DEF EndOfTable, AtRow
      <4>2. Len(mem[at[1]]) \in Nat
        BY <1>1, <4>1, MemType, LenProperties
      <4> QED
        BY <3>3, <4>1, <4>2
    <3>7. \A i \in Atomic!Touched(mem, t, k) :
             (t < at'[1] \/ (t = at'[1] /\ i <= at'[2]))
                <=> (t < at[1] \/ (t = at[1] /\ i <= at[2]))
      BY <1>3, <3>1, <3>2, <3>3, <3>4, <3>5, <3>6
    <3> QED
      BY <1>1, <3>7 DEF Done
  <2>4. Progress'
    BY <1>1, <1>4, <2>3 DEF IInv, Progress
  <2>5. AtEnd' /\ AtInsert'
    BY <1>1, <1>4 DEF AtEnd, AtInsert
  <2> QED
    BY <1>2, <2>2, <2>4, <2>5 DEF IInv
<1>5. CASE at[1] > Max(Table) /\ pc' = "end" /\ UNCHANGED at
  <2>1. TypeOK'
    BY <1>1, <1>5 DEF TypeOK
  <2>2. Progress'
    BY <1>1, <1>5 DEF IInv, Progress, Done
  <2>3. AtEnd' /\ AtInsert'
    BY <1>3, <1>5, LastTable, SaveAssumption DEF AtEnd, AtInsert
  <2> QED
    BY <1>2, <2>1, <2>2, <2>3 DEF IInv
<1> QED
  BY <1>4, <1>5 DEF EndOfTable

\* The loop goes on to the next row, with the one it was at sent if it is a changed
\* one, and nothing else moved.
LEMMA NextRowPreserves ==
    ASSUME IInv, AtRow, pc \in {"rows", "insert"}, UNCHANGED <<array, deque>>,
           at' = NextRow(at[1], at[2]),
           Row.stat = "NORMAL_ROW" => tx' = tx,
           Row.stat # "NORMAL_ROW" => tx'[at[1]][Row.key] = Sent(Row),
           \A u \in Table, k \in Key : u # at[1] \/ k # Row.key => tx'[u][k] = tx[u][k]
    PROVE  Progress' /\ at' \in (HasData \union {Max(Table) + 1}) \X Nat
<1> DEFINE t == at[1]
           i == at[2] + 1
<1>1. TypeOK /\ mem' = mem /\ t \in HasData
  BY DEF IInv, AtRow, mem
<1>2. /\ t \in Table /\ t \in Nat /\ at[2] \in Nat
      /\ i \in DOMAIN mem[t] /\ Row = mem[t][i] /\ Row \in MemRow
  BY <1>1, IteratorIs
<1>3. at' = <<t, i>>
  BY DEF NextRow
<1>4. i \in Nat
  BY <1>2
<1> HIDE DEF i
<1>5. at' \in (HasData \union {Max(Table) + 1}) \X Nat
  BY <1>1, <1>3, <1>4
<1>6. Progress'
  <2> SUFFICES ASSUME NEW u \in HasData, NEW k \in Key, NEW x \in Done(u, k)',
                      \A j \in Done(u, k)' : j <= x
               PROVE  tx'[u][k] = Sent(mem[u][x])
    BY <1>1 DEF Progress
  <2>1. u \in Table /\ u \in Nat
    BY SaveAssumption
  <2>2. Atomic!Touched(mem, u, k) \subseteq Nat
    BY <1>1, <2>1, TouchedType
  <2>3. Done(u, k)' = {j \in Atomic!Touched(mem, u, k) : u < t \/ (u = t /\ j <= i)}
    BY <1>1, <1>3 DEF Done
  <2>4. Done(u, k) = {j \in Atomic!Touched(mem, u, k) : u < t \/ (u = t /\ j < i)}
    <3>1. \A j \in Atomic!Touched(mem, u, k) : j <= at[2] <=> j < i
      BY <1>2, <2>2 DEF i
    <3> QED
      BY <3>1 DEF Done
  <2>5. CASE u = t /\ x = i
    <3>1. x \in Atomic!Touched(mem, u, k)
      BY <2>3
    <3>2. k = Row.key /\ Row.stat # "NORMAL_ROW"
      BY <1>2, <2>5, <3>1 DEF Atomic!Touched
    <3> QED
      BY <1>2, <2>5, <3>2
  <2>6. CASE ~(u = t /\ x = i)
    <3>1. x \in Done(u, k)
      BY <1>4, <2>2, <2>3, <2>4, <2>6
    <3>2. \A j \in Done(u, k) : j <= x
      BY <1>4, <2>2, <2>3, <2>4
    <3>3. Row.stat = "NORMAL_ROW" \/ u # t \/ k # Row.key
      <4> SUFFICES ASSUME Row.stat # "NORMAL_ROW", u = t, k = Row.key PROVE FALSE
        OBVIOUS
      <4>1. i \in Atomic!Touched(mem, u, k)
        BY <1>2 DEF Atomic!Touched
      <4>2. i <= x
        BY <1>4, <2>3, <4>1
      <4>3. x < i
        BY <1>2, <2>4, <3>1
      <4> QED
        BY <1>4, <2>2, <2>3, <4>2, <4>3
    <3>4. tx[u][k] = Sent(mem[u][x]) \/ (pc = "insert" /\ u = t /\ k = Row.key)
      BY <3>1, <3>2 DEF IInv, Progress
    <3>5. tx[u][k] = Sent(mem[u][x])
      BY <3>3, <3>4 DEF IInv, AtInsert
    <3> QED
      BY <2>1, <3>3, <3>5
  <2> QED
    BY <2>5, <2>6
<1> QED
  BY <1>5, <1>6

\* A row that was not changed is passed over.
LEMMA SkipRowPreserves ==
    ASSUME IInv, SkipRow
    PROVE  IInv'
<1>1. /\ TypeOK /\ UNCHANGED <<array, deque, mem, db, pc, ret, msg, open, tx>> /\ pc = "rows"
      /\ AtRow /\ Row.stat = "NORMAL_ROW" /\ at' = NextRow(at[1], at[2])
  BY DEF IInv, SkipRow, rows, mem
<1>2. Progress' /\ at' \in (HasData \union {Max(Table) + 1}) \X Nat
  BY <1>1, NextRowPreserves
<1>3. TypeOK'
  BY <1>1, <1>2 DEF TypeOK
<1>4. Untouched' /\ Agreement' /\ AtEnd' /\ AtInsert'
  BY <1>1 DEF IInv, Untouched, Agreement, AtEnd, AtInsert
<1> QED
  BY <1>2, <1>3, <1>4 DEF IInv

\* e is d with the row of key k in table t put to v, or deleted.
IsPut(d, t, k, v, e) ==
    /\ e \in Database
    /\ e[t][k] = v
    /\ \A u \in Table, l \in Key : u # t \/ l # k => e[u][l] = d[u][l]

\* A statement is about one row.
LEMMA PutIs ==
    ASSUME NEW d \in Database, NEW t \in Table, NEW k \in Key, NEW v \in Val \union {None}
    PROVE  IsPut(d, t, k, v, [d EXCEPT ![t][k] = v])
BY DEF Database, IsPut

\* A statement about a changed row, in a transaction or not, leaves alone the keys
\* that no row was changed for.
LEMMA StatementPreserves ==
    ASSUME IInv, AtRow, Row.stat # "NORMAL_ROW", UNCHANGED <<array, deque, open>>,
           NEW v \in Val \union {None},
           Execute([tx EXCEPT ![at[1]][Row.key] = v])
    PROVE  /\ tx' \in Database /\ db' \in Database /\ (~open => tx = db)'
           /\ tx'[at[1]][Row.key] = v
           /\ \A u \in Table, k \in Key : u # at[1] \/ k # Row.key => tx'[u][k] = tx[u][k]
           /\ Untouched' /\ Agreement'
<1> DEFINE t == at[1]
           row == Row
<1>1. TypeOK /\ mem' = mem /\ open' = open /\ t \in HasData
  BY DEF IInv, AtRow, mem
<1>2. /\ t \in Table /\ at[2] + 1 \in DOMAIN mem[t] /\ row = mem[t][at[2] + 1]
      /\ row \in MemRow
  BY <1>1, IteratorIs
<1>3. row.key \in Key /\ Atomic!Touched(mem, t, row.key) # {}
  BY <1>2 DEF Atomic!Touched, MemRow
<1>4. tx \in Database /\ db \in Database /\ (~open => tx = db)
  BY <1>1 DEF TypeOK, Database
<1>5. tx' = [tx EXCEPT ![t][row.key] = v] /\ db' = IF open THEN db ELSE tx'
  BY DEF Execute
<1> HIDE DEF row
<1>6. /\ tx' \in Database
      /\ tx'[t][row.key] = v
      /\ \A u \in Table, k \in Key : u # t \/ k # row.key => tx'[u][k] = tx[u][k]
  <2>1. IsPut(tx, t, row.key, v, [tx EXCEPT ![t][row.key] = v])
    BY <1>2, <1>3, <1>4, PutIs
  <2> QED
    BY <1>5, <2>1 DEF IsPut
<1>7. db' \in Database /\ (~open' => tx' = db')
  BY <1>1, <1>4, <1>5, <1>6
<1>8. ASSUME NEW u \in Table, NEW k \in Key, u \in HasData => Atomic!Touched(mem, u, k) = {}
      PROVE  tx'[u][k] = db[u][k] /\ db'[u][k] = db[u][k]
  <2>1. u # t \/ k # row.key
    BY <1>1, <1>3, <1>8
  <2>2. tx[u][k] = db[u][k]
    BY <1>8 DEF IInv, Untouched
  <2>3. tx'[u][k] = db[u][k]
    BY <1>6, <2>1, <2>2
  <2> QED
    BY <1>5, <2>3
<1>9. Untouched'
  BY <1>1, <1>8 DEF Untouched
<1>10. Agreement'
  <2> SUFFICES ASSUME NEW u \in HasData, NEW k \in Key, Atomic!Touched(mem, u, k) = {}
               PROVE  Values(mem, u, k) = {db'[u][k]} \ {None}
    BY <1>1 DEF Agreement
  <2>1. u \in Table
    BY SaveAssumption
  <2>2. db'[u][k] = db[u][k]
    BY <1>8, <2>1
  <2> QED
    BY <2>2 DEF IInv, Agreement
<1> QED
  BY <1>6, <1>7, <1>9, <1>10 DEF row

\* The delete of a row.
LEMMA DeleteDataPreserves ==
    ASSUME IInv, DeleteData
    PROVE  IInv'
<1>1. /\ TypeOK /\ pc = "rows" /\ AtRow /\ Row.stat # "NORMAL_ROW" /\ Row.stat \in {"DELETE_ROW", "UPDATE_ROW"}
      /\ UNCHANGED <<array, deque, ret, msg, open>> /\ mem' = mem
      /\ Execute([tx EXCEPT ![at[1]][Row.key] = None])
  BY DEF IInv, DeleteData, Deletes, rows, mem
<1>2. /\ tx' \in Database /\ db' \in Database /\ (~open => tx = db)'
      /\ tx'[at[1]][Row.key] = None
      /\ \A u \in Table, k \in Key : u # at[1] \/ k # Row.key => tx'[u][k] = tx[u][k]
      /\ Untouched' /\ Agreement'
  BY <1>1, StatementPreserves
<1>3. CASE Row.stat = "UPDATE_ROW" /\ pc' = "insert" /\ UNCHANGED at
  <2>1. AtRow' /\ Row' = Row
    BY <1>1, <1>3 DEF AtRow, Row, More, RowAt
  <2>2. TypeOK'
    BY <1>1, <1>2, <1>3 DEF TypeOK, Database
  <2>3. Progress'
    <3> SUFFICES ASSUME NEW u \in HasData, NEW k \in Key, NEW x \in Done(u, k)',
                        \A j \in Done(u, k)' : j <= x
                 PROVE  tx'[u][k] = Sent(mem[u][x]) \/ (u = at[1] /\ k = Row.key)
      BY <1>1, <1>3, <2>1 DEF Progress
    <3>1. Done(u, k)' = Done(u, k)
      BY <1>1, <1>3 DEF Done
    <3>2. tx[u][k] = Sent(mem[u][x])
      BY <1>1, <3>1 DEF IInv, Progress
    <3>3. u \in Table
      BY SaveAssumption
    <3> QED
      BY <1>2, <3>2, <3>3
  <2>4. AtInsert' /\ AtEnd'
    BY <1>3, <2>1 DEF AtInsert, AtEnd
  <2> QED
    BY <1>2, <2>2, <2>3, <2>4 DEF IInv
<1>4. CASE Row.stat # "UPDATE_ROW" /\ at' = NextRow(at[1], at[2]) /\ UNCHANGED pc
  <2>1. Sent(Row) = None
    BY <1>1, <1>4 DEF Sent
  <2>2. Progress' /\ at' \in (HasData \union {Max(Table) + 1}) \X Nat
    BY <1>1, <1>2, <1>4, <2>1, NextRowPreserves
  <2>3. TypeOK'
    BY <1>1, <1>2, <1>4, <2>2 DEF TypeOK, Database
  <2>4. AtInsert' /\ AtEnd'
    BY <1>1, <1>4 DEF AtInsert, AtEnd
  <2> QED
    BY <1>2, <2>2, <2>3, <2>4 DEF IInv
<1> QED
  BY <1>3, <1>4 DEF DeleteData

\* The insert that follows it: the row becomes the last one of its key.
LEMMA InsertDataPreserves ==
    ASSUME IInv, InsertData
    PROVE  IInv'
<1>1. /\ TypeOK /\ pc = "insert" /\ pc' = "rows" /\ AtRow /\ Row.stat = "UPDATE_ROW"
      /\ UNCHANGED <<array, deque, ret, msg, open>>
      /\ at' = NextRow(at[1], at[2])
      /\ Execute([tx EXCEPT ![at[1]][Row.key] = Row.val])
  BY DEF IInv, InsertData, AtInsert, rows
<1>2. Row.val \in Val
  BY <1>1, IteratorIs DEF AtRow, MemRow
<1>3. /\ tx' \in Database /\ db' \in Database /\ (~open => tx = db)'
      /\ tx'[at[1]][Row.key] = Row.val
      /\ \A u \in Table, k \in Key : u # at[1] \/ k # Row.key => tx'[u][k] = tx[u][k]
      /\ Untouched' /\ Agreement'
  BY <1>1, <1>2, StatementPreserves
<1>4. Sent(Row) = Row.val
  BY <1>1 DEF Sent
<1>5. Progress' /\ at' \in (HasData \union {Max(Table) + 1}) \X Nat
  BY <1>1, <1>3, <1>4, NextRowPreserves
<1>6. TypeOK'
  BY <1>1, <1>3, <1>5 DEF TypeOK, Database
<1>7. AtInsert' /\ AtEnd'
  BY <1>1 DEF AtInsert, AtEnd
<1> QED
  BY <1>3, <1>5, <1>6, <1>7 DEF IInv

\* A failed statement ends the loop.
LEMMA FailPreserves ==
    ASSUME IInv, Fail
    PROVE  IInv'
<1>1. /\ TypeOK /\ pc' = "end" /\ ret' = TRUE
      /\ UNCHANGED <<array, deque, mem, db, at, msg, open, tx>>
  BY DEF IInv, Fail, rows, mem
<1>2. TypeOK'
  BY <1>1 DEF TypeOK
<1>3. Progress' /\ AtEnd' /\ AtInsert'
  BY <1>1 DEF Progress, AtEnd, AtInsert
<1>4. Untouched' /\ Agreement'
  BY <1>1 DEF IInv, Untouched, Agreement
<1> QED
  BY <1>2, <1>3, <1>4 DEF IInv

\* At the end of the loop the connection sees what memory makes of the database, be
\* that the committed one or the one it sees already.
LEMMA AllIsSent ==
    ASSUME IInv, pc = "end", ~ret
    PROVE  tx = Atomic!Applied(mem, db) /\ tx = Atomic!Applied(mem, tx)
<1>1. TypeOK /\ at[1] = Max(Table) + 1
  BY DEF IInv, AtEnd
<1>2. ASSUME NEW t \in Table, NEW k \in Key
      PROVE  /\ tx[t][k] = Atomic!Applied(mem, db)[t][k]
             /\ tx[t][k] = Atomic!Applied(mem, tx)[t][k]
  <2> DEFINE touched == Atomic!Touched(mem, t, k)
  <2>1. CASE t \notin HasData \/ touched = {}
    <3>1. tx[t][k] = db[t][k]
      BY <2>1 DEF IInv, Untouched
    <3> QED
      BY <2>1, <3>1 DEF Atomic!Applied
  <2>2. CASE t \in HasData /\ touched # {}
    <3>1. touched \subseteq 1 .. Len(mem[t]) /\ Len(mem[t]) \in Nat
      BY <1>1, TouchedType
    <3>2. Done(t, k) = touched
      <4>1. t < at[1]
        BY <1>1, LastTable
      <4> QED
        BY <4>1 DEF Done
    <3> HIDE DEF touched
    <3>3. Max(touched) \in touched /\ \A y \in touched : y <= Max(touched)
      <4>1. touched \subseteq 0 .. Len(mem[t]) /\ touched \subseteq Int
        BY <3>1
      <4>2. \E x \in touched : \A y \in touched : y <= x
        BY <2>2, <3>1, <4>1, GreatestExists
      <4> QED
        BY <4>1, <4>2, MaxIs
    <3>4. tx[t][k] = Sent(mem[t][Max(touched)])
      BY <2>2, <3>2, <3>3 DEF IInv, Progress
    <3>5. Atomic!Max(touched) = Max(touched)
      BY DEF Atomic!Max, Max
    <3> QED
      BY <2>2, <3>4, <3>5 DEF Atomic!Applied, Sent, touched
  <2> QED
    BY <2>1, <2>2
<1>3. tx = [t \in Table |-> [k \in Key |-> tx[t][k]]]
  BY <1>1 DEF TypeOK
<1> QED
  BY <1>2, <1>3 DEF Atomic!Applied

\* A commit changes no row of a key that no row in memory was changed for.
LEMMA CommitPreserves ==
    ASSUME IInv, Commit
    PROVE  IInv'
<1>1. TypeOK /\ UNCHANGED <<array, deque, mem, at, ret, msg>> /\ pc' = "idle"
  BY DEF IInv, Commit, rows, mem
<1>2. \/ db' = tx /\ tx' = tx /\ open' = FALSE
      \/ db' = db /\ open' \in BOOLEAN /\ tx' = IF open' THEN tx ELSE db
  BY <1>1, DatabaseAssumption DEF Commit, TypeOK
<1>3. TypeOK'
  BY <1>1, <1>2 DEF TypeOK
<1>4. Progress' /\ AtEnd' /\ AtInsert'
  BY <1>1 DEF Progress, AtEnd, AtInsert
<1>5. Untouched'
  BY <1>1, <1>2 DEF IInv, Untouched
<1>6. Agreement'
  <2> SUFFICES ASSUME NEW t \in HasData, NEW k \in Key, Atomic!Touched(mem, t, k) = {}
               PROVE  Values(mem, t, k) = {db'[t][k]} \ {None}
    BY <1>1 DEF Agreement
  <2>1. t \in Table
    BY SaveAssumption
  <2>2. tx[t][k] = db[t][k] /\ Values(mem, t, k) = {db[t][k]} \ {None}
    BY <2>1 DEF IInv, Untouched, Agreement
  <2> QED
    BY <1>2, <2>2
<1> QED
  BY <1>3, <1>4, <1>5, <1>6 DEF IInv

\* A rollback leaves the database and the rows in memory.
LEMMA RollBackPreserves ==
    ASSUME IInv, RollBack
    PROVE  IInv'
<1>1. TypeOK /\ UNCHANGED <<array, deque, mem, db>> /\ pc' = "idle" /\ tx' = db
      /\ ret' = FALSE /\ msg' = TRUE /\ open' = FALSE /\ at' = Past
  BY DEF IInv, RollBack, rows, mem
<1>2. TypeOK'
  <2>1. Past \in (HasData \union {Max(Table) + 1}) \X Nat
    BY DEF Past
  <2> QED
    BY <1>1, <2>1 DEF TypeOK
<1> QED
  BY <1>1, <1>2 DEF IInv, Progress, AtEnd, AtInsert, Untouched, Agreement

\* A new process starts as the first one did.
LEMMA CrashPreserves ==
    ASSUME IInv, Crash
    PROVE  IInv'
<1>1. TypeOK /\ UNCHANGED db /\ pc' = "idle" /\ tx' = db
      /\ ret' = FALSE /\ msg' = FALSE /\ open' = FALSE /\ at' = Past
  BY DEF IInv, Crash
<1>2. db \in Database
  BY <1>1 DEF TypeOK, Database
<1>3. /\ array' \in [Table -> Seq(MemRow)] /\ deque' \in [Table -> Seq(MemRow)]
      /\ mem' = Reloaded(db)
  <2>1. array' = Reloaded(db) /\ deque' = [t \in Table |-> <<>>]
    BY DEF Crash
  <2>2. Fresh(db, array', deque')
    BY <1>2, <2>1, FreshMem
  <2> QED
    BY <2>2 DEF Fresh, mem
<1>4. TypeOK'
  <2>1. Past \in (HasData \union {Max(Table) + 1}) \X Nat
    BY DEF Past
  <2> QED
    BY <1>1, <1>3, <2>1 DEF TypeOK
<1>5. Agreement'
  <2>1. \A t \in HasData, k \in Key : Values(mem', t, k) = {db[t][k]} \ {None}
    BY <1>2, <1>3, ReloadedIsStored
  <2> QED
    BY <1>1, <2>1 DEF Agreement
<1> QED
  BY <1>1, <1>4, <1>5 DEF IInv, Progress, AtEnd, AtInsert, Untouched

\* The invariant is inductive.
LEMMA StepPreserves == IInv /\ [Next]_vars => IInv'
<1> SUFFICES ASSUME IInv, [Next]_vars PROVE IInv'
  OBVIOUS
<1>1. ASSUME NEW t \in Table, NEW k \in Key, NEW v \in Val, AddRow(t, k, v) PROVE IInv'
  BY <1>1, AddRowPreserves
<1>2. ASSUME NEW t \in Table, NEW i \in DOMAIN mem[t], NEW v \in Val, ChangeRow(t, i, v)
      PROVE  IInv'
  BY <1>2, ChangeRowPreserves
<1>3. ASSUME NEW t \in Table, NEW i \in DOMAIN mem[t], DeleteRow(t, i) PROVE IInv'
  BY <1>3, DeleteRowPreserves
<1>4. CASE Begin
  BY <1>4, BeginPreserves
<1>5. CASE EndOfTable
  BY <1>5, EndOfTablePreserves
<1>6. CASE SkipRow
  BY <1>6, SkipRowPreserves
<1>7. CASE DeleteData
  BY <1>7, DeleteDataPreserves
<1>8. CASE InsertData
  BY <1>8, InsertDataPreserves
<1>9. CASE Fail
  BY <1>9, FailPreserves
<1>10. CASE Commit
  BY <1>10, CommitPreserves
<1>11. CASE RollBack
  BY <1>11, RollBackPreserves
<1>12. CASE Crash
  BY <1>12, CrashPreserves
<1>13. CASE UNCHANGED vars
  <2>1. UNCHANGED <<array, deque, db, pc, at, ret, msg, open, tx>> /\ mem' = mem
    BY <1>13 DEF vars, mem
  <2>2. Row' = Row /\ (AtRow <=> AtRow')
    BY <2>1 DEF Row, AtRow, RowAt, More
  <2>3. TypeOK' /\ Untouched' /\ AtEnd' /\ Agreement' /\ AtInsert'
    BY <2>1, <2>2 DEF IInv, TypeOK, Untouched, AtEnd, Agreement, AtInsert
  <2>4. \A t \in HasData, k \in Key : Done(t, k)' = Done(t, k)
    BY <2>1 DEF Done
  <2>5. Progress'
    BY <2>1, <2>2, <2>4 DEF IInv, Progress
  <2> QED
    BY <2>3, <2>5 DEF IInv
<1> QED
  BY <1>1, <1>2, <1>3, <1>4, <1>5, <1>6, <1>7, <1>8, <1>9, <1>10, <1>11, <1>12, <1>13
     DEF Next, SaveStep

-----------------------------------------------------------------------------
(* The theorems                                                            *)

\* The state of a save keeps its types, whatever fails, start_transaction included:
\* its loops stand only at tables with data, and without a transaction the connection
\* sees the database itself.
THEOREM TypeCorrect == Spec => []TypeOK
<1>1. IInv => TypeOK
  BY DEF IInv
<1> QED
  BY InitEstablishes, StepPreserves, <1>1, PTL DEF Spec

\* Memory and database agree on every key no row in memory was changed for, after
\* any number of saves, failures and restarts, in transactions or not.
THEOREM AgreementCorrect == Spec => []Agreement
<1>1. IInv => Agreement
  BY DEF IInv
<1> QED
  BY InitEstablishes, StepPreserves, <1>1, PTL DEF Spec

\* The loops of save() and the iterator leave no changed row out: where no statement
\* failed, every change in memory was sent before save() commits, with a transaction
\* or without.
THEOREM AllSentCorrect == Spec => []AllSent
<1>1. IInv => AllSent
  BY AllIsSent DEF AllSent
<1> QED
  BY InitEstablishes, StepPreserves, <1>1, PTL DEF Spec

\* A statement about the row the loop is at is one of AtomicSave.
LEMMA SendIsStatement ==
    ASSUME IInv, AtRow, pc # "idle", Row.stat # "NORMAL_ROW", mem' = mem,
           NEW v \in {None, Row.val}, Execute([tx EXCEPT ![at[1]][Row.key] = v])
    PROVE  Atomic!ANext
<1>1. CASE open
  BY <1>1 DEF Execute, Atomic!ANext
<1>2. CASE ~open
  <2>1. tx = db
    BY <1>2 DEF IInv, TypeOK
  <2>2. db' = [db EXCEPT ![at[1]][Row.key] = v]
    BY <1>2, <2>1 DEF Execute
  <2>3. /\ at[1] \in HasData /\ at[2] + 1 \in DOMAIN mem[at[1]]
        /\ Row = mem[at[1]][at[2] + 1] /\ Row \in MemRow
    BY IteratorIs DEF IInv, AtRow
  <2>4. at[2] + 1 \in Atomic!Touched(mem, at[1], Row.key) /\ Row.key \in Key
    BY <2>3 DEF Atomic!Touched, MemRow
  <2>5. v \in {None} \union {mem[at[1]][i].val : i \in Atomic!Touched(mem, at[1], Row.key)}
    BY <2>3, <2>4
  <2>6. Atomic!Statement
    BY <1>2, <2>2, <2>3, <2>4, <2>5 DEF Atomic!Statement
  <2> QED
    BY <2>6 DEF Atomic!ANext
<1> QED
  BY <1>1, <1>2

\* With a transaction save() is atomic, for every number of tables, rows and
\* failures: only a commit that succeeds changes the database, and then by every
\* change in memory. Without one it is not, and each step that changes the database
\* is one statement about a changed row.
THEOREM SaveAtomic == Spec => SaveIsAtomic
<1>1. Init => Atomic!AInit
  BY DEF Init, Atomic!AInit
<1>2. IInv /\ [Next]_vars => [Atomic!ANext]_<<mem, db, pc, open>>
  <2> SUFFICES ASSUME IInv, [Next]_vars PROVE [Atomic!ANext]_<<mem, db, pc, open>>
    OBVIOUS
  <2>1. CASE Commit
    <3>1. pc = "end" /\ ~ret /\ mem' = mem /\ pc' = "idle"
          /\ ((db' = tx /\ open' = FALSE) \/ UNCHANGED db)
      BY <2>1 DEF Commit, rows, mem
    <3>2. tx = Atomic!Applied(mem, db)
      BY <3>1, AllIsSent
    <3>3. ~open => tx = db
      BY DEF IInv, TypeOK
    <3> QED
      BY <3>1, <3>2, <3>3 DEF Atomic!ANext, Atomic!Save
  <2>2. CASE DeleteData
    <3>1. AtRow /\ pc # "idle" /\ Row.stat # "NORMAL_ROW" /\ mem' = mem
          /\ Execute([tx EXCEPT ![at[1]][Row.key] = None])
      BY <2>2 DEF DeleteData, Deletes, rows, mem
    <3> QED
      BY <3>1, SendIsStatement
  <2>3. CASE InsertData
    <3>1. AtRow /\ pc # "idle" /\ Row.stat # "NORMAL_ROW" /\ mem' = mem
          /\ Execute([tx EXCEPT ![at[1]][Row.key] = Row.val])
      BY <2>3 DEF InsertData, IInv, AtInsert, rows, mem
    <3> QED
      BY <3>1, SendIsStatement
  <2>4. ASSUME ~Commit, ~DeleteData, ~InsertData PROVE UNCHANGED db
    BY <2>4 DEF Next, SaveStep, Edit, AddRow, ChangeRow, DeleteRow, Begin, EndOfTable,
                SkipRow, Fail, RollBack, Crash, vars
  <2> QED
    BY <2>1, <2>2, <2>3, <2>4 DEF Atomic!ANext
<1> QED
  BY InitEstablishes, StepPreserves, <1>1, <1>2, PTL DEF Spec, SaveIsAtomic, Atomic!ASpec
=============================================================================
