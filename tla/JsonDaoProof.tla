---------------------------- MODULE JsonDaoProof ----------------------------
(* Proofs about JsonDao: what its file is worth after any sequence of        *)
(* processes that load, edit, save and die.                                  *)
EXTENDS JsonDao, NumberFacts, SequenceTheorems, TLAPS

-----------------------------------------------------------------------------
(* Sequences                                                               *)

\* A sequence given by what it has at each place.
LEMMA GivenByPlaces ==
    ASSUME NEW S, NEW n \in Nat, NEW f \in [1 .. n -> S]
    PROVE  f \in Seq(S) /\ Len(f) = n /\ DOMAIN f = 1 .. n
<1>1. f \in Seq(S)
  BY SeqDef
<1>2. Len(f) \in Nat /\ DOMAIN f = 1 .. Len(f) /\ DOMAIN f = 1 .. n
  BY <1>1, LenProperties
<1>3. Len(f) = n
  BY <1>2
<1> QED
  BY <1>1, <1>2, <1>3

\* One that agrees with the beginning of another is a prefix of it.
LEMMA PrefixIs ==
    ASSUME NEW S, NEW s \in Seq(S), NEW t \in Seq(S), Len(s) <= Len(t),
           \A i \in 1 .. Len(s) : s[i] = t[i]
    PROVE  IsPrefix(s, t)
<1> DEFINE n == Len(s)
           u == SubSeq(t, 1, n)
<1>1. n \in Nat /\ Len(t) \in Nat
  BY LenProperties
<1>2. \A i \in 1 .. n : t[i] \in S
  BY <1>1, ElementOfSeq
<1>3. /\ u \in Seq(S)
      /\ Len(u) = IF 1 <= n THEN n - 1 + 1 ELSE 0
      /\ \A i \in 1 .. n - 1 + 1 : u[i] = t[1 + i - 1]
  BY <1>1, <1>2, SubSeqProperties
<1> HIDE DEF u
<1>4. Len(u) = n
  BY <1>1, <1>3
<1>5. \A i \in 1 .. n : u[i] = s[i]
  <2>1. ASSUME NEW i \in 1 .. n PROVE u[i] = t[i]
    <3>1. i \in 1 .. n - 1 + 1 /\ 1 + i - 1 = i
      BY <1>1
    <3> QED
      BY <1>3, <3>1
  <2> QED
    BY <2>1
<1>6. s = u
  BY <1>3, <1>4, <1>5, SeqEqual
<1>7. SubSeq(s, 1, n) = s
  BY SubSeqFull
<1> QED
  BY <1>6, <1>7 DEF IsPrefix, u

\* The places of a set, in ascending order.
LEMMA PlacesAscend ==
    ASSUME NEW n \in Nat, NEW S \in SUBSET (1 .. n)
    PROVE  /\ Cardinality(S) \in Nat
           /\ Ascending(S) \in [1 .. Cardinality(S) -> S]
           /\ \A x \in S : \E k \in 1 .. Cardinality(S) : Ascending(S)[k] = x
<1>1. IsFiniteSet(1 .. n)
  BY FS_Interval
<1>2. IsFiniteSet(S)
  BY <1>1, FS_Subset
<1>3. S \subseteq Int
  OBVIOUS
<1> QED
  BY <1>2, <1>3, AscendingIs

\* All the places in ascending order are themselves.
LEMMA AllAscend ==
    ASSUME NEW n \in Nat
    PROVE  Cardinality(1 .. n) = n /\ Ascending(1 .. n) = [k \in 1 .. n |-> k]
<1> DEFINE S == 1 .. n
           A == Ascending(S)
<1>1. IsFiniteSet(S) /\ Cardinality(S) = n
  <2>1. IsFiniteSet(S) /\ Cardinality(S) = IF 1 > n THEN 0 ELSE n - 1 + 1
    BY FS_Interval
  <2> QED
    BY <2>1
<1>2. A \in [1 .. n -> S] /\ \A k \in 1 .. n : Cardinality({y \in S : y < A[k]}) = k - 1
  <2>1. S \subseteq Int
    OBVIOUS
  <2> HIDE DEF S
  <2> QED
    BY <1>1, <2>1, AscendingIs
<1>3. ASSUME NEW k \in 1 .. n PROVE A[k] = k
  <2>1. A[k] \in 1 .. n
    BY <1>2
  <2> HIDE DEF A
  <2>2. {y \in S : y < A[k]} = 1 .. A[k] - 1
    BY <2>1
  <2>3. \A m \in 0 .. n : Cardinality(1 .. m) = m
    <3> SUFFICES ASSUME NEW m \in 0 .. n PROVE Cardinality(1 .. m) = m
      OBVIOUS
    <3>1. Cardinality(1 .. m) = IF 1 > m THEN 0 ELSE m - 1 + 1
      BY FS_Interval
    <3> QED
      BY <3>1
  <2>4. Cardinality(1 .. A[k] - 1) = A[k] - 1
    BY <2>1, <2>3
  <2>5. Cardinality(1 .. A[k] - 1) = k - 1
    BY <1>2, <2>2
  <2> QED
    BY <2>1, <2>4, <2>5
<1> HIDE DEF A
<1>4. A = [k \in 1 .. n |-> k]
  BY <1>2, <1>3
<1> QED
  BY <1>1, <1>4 DEF A

-----------------------------------------------------------------------------
(* Lines and rows                                                          *)

FileLine == Row \union {Broken}

\* The values that the lines of a file are read back as.
ReadBack(lines) == [i \in DOMAIN lines |-> Canon[lines[i]]]
Stored(lines) == {Canon[l] : l \in ToSet(Whole(lines))}

\* The lines of a file that parse.
LEMMA WholeIs ==
    ASSUME NEW lines \in Seq(FileLine)
    PROVE  /\ Whole(lines) \in Seq(Row)
           /\ ToSet(Whole(lines)) = ToSet(lines) \ {Broken}
           /\ Broken \notin ToSet(lines) => Whole(lines) = lines
<1> DEFINE n == Len(lines)
           S == {i \in DOMAIN lines : lines[i] # Broken}
           A == Ascending(S)
           m == Cardinality(S)
           W == [k \in DOMAIN A |-> lines[A[k]]]
<1>1. n \in Nat /\ DOMAIN lines = 1 .. n /\ lines \in [1 .. n -> FileLine]
  BY LenProperties
<1>2. S \in SUBSET (1 .. n)
  BY <1>1
<1>3. m \in Nat /\ A \in [1 .. m -> S] /\ \A x \in S : \E k \in 1 .. m : A[k] = x
  <2> HIDE DEF S
  <2> QED
    BY <1>1, <1>2, PlacesAscend
<1>4. Whole(lines) = W
  BY DEF Whole
<1>5. \A i \in S : lines[i] \in Row
  BY <1>1 DEF FileLine
<1> HIDE DEF A, m
<1>6. W \in [1 .. m -> Row]
  <2> HIDE DEF S
  <2>1. DOMAIN A = 1 .. m /\ \A k \in 1 .. m : lines[A[k]] \in Row
    BY <1>3, <1>5
  <2> QED
    BY <2>1
<1>7. ToSet(W) = ToSet(lines) \ {Broken}
  <2>1. ToSet(W) \subseteq ToSet(lines) \ {Broken}
    BY <1>1, <1>3 DEF ToSet
  <2>2. ASSUME NEW x \in ToSet(lines) \ {Broken} PROVE x \in ToSet(W)
    <3>1. PICK i \in S : lines[i] = x
      BY DEF ToSet
    <3> HIDE DEF S
    <3>2. PICK k \in 1 .. m : A[k] = i
      BY <1>3
    <3>3. k \in DOMAIN W /\ W[k] = x
      BY <1>3, <3>1, <3>2
    <3> HIDE DEF W
    <3> QED
      BY <3>3 DEF ToSet
  <2> QED
    BY <2>1, <2>2
<1>8. ASSUME Broken \notin ToSet(lines) PROVE W = lines
  <2>1. S = 1 .. n
    BY <1>1, <1>8 DEF ToSet
  <2>2. A = [k \in 1 .. n |-> k]
    <3> HIDE DEF S
    <3> QED
      BY <1>1, <2>1, AllAscend DEF A
  <2> HIDE DEF S
  <2>3. W = [k \in 1 .. n |-> lines[k]]
    BY <2>2
  <2> QED
    BY <1>1, <2>3
<1> HIDE DEF W
<1>9. W \in Seq(Row)
  BY <1>3, <1>6, GivenByPlaces
<1> QED
  BY <1>4, <1>7, <1>8, <1>9

\* The lines of rows that all have data.
LEMMA LinesAre ==
    ASSUME NEW table \in Seq(MemRow), \A r \in LiveRows(table) : r.val # None
    PROVE  /\ Lines(table) \in Seq(Row)
           /\ ToSet(Lines(table)) = Names(table)
           /\ \A i \in DOMAIN Lines(table) : Canon[Lines(table)[i]] = Lines(table)[i]
<1> DEFINE n == Len(table)
           S == {i \in DOMAIN table : table[i].stat # "DELETE_ROW"}
           A == Ascending(S)
           m == Cardinality(S)
           L == [k \in DOMAIN A |-> Canon[table[A[k]].val]]
<1>1. n \in Nat /\ DOMAIN table = 1 .. n /\ table \in [1 .. n -> MemRow]
  BY LenProperties
<1>2. S \in SUBSET (1 .. n)
  BY <1>1
<1>3. m \in Nat /\ A \in [1 .. m -> S] /\ \A x \in S : \E k \in 1 .. m : A[k] = x
  <2> HIDE DEF S
  <2> QED
    BY <1>1, <1>2, PlacesAscend
<1>4. Lines(table) = L
  BY DEF Lines
<1>5. \A i \in S : table[i].val \in Row /\ table[i] \in LiveRows(table)
  BY <1>1 DEF LiveRows, ToSet, MemRow
<1>6. \A r \in LiveRows(table) : \E i \in S : table[i] = r
  BY <1>1 DEF LiveRows, ToSet
<1> HIDE DEF A, m, S
<1>7. \A k \in 1 .. m : /\ L[k] = Canon[table[A[k]].val]
                        /\ L[k] \in Row /\ Canon[L[k]] = L[k]
  BY <1>3, <1>5, CanonAssumption
<1>8. L \in [1 .. m -> Row]
  BY <1>3, <1>7
<1>9. ToSet(L) = Names(table)
  <2>1. ASSUME NEW x \in ToSet(L) PROVE x \in Names(table)
    <3>1. PICK k \in 1 .. m : x = L[k]
      BY <1>8 DEF ToSet
    <3>2. A[k] \in S
      BY <1>3
    <3> HIDE DEF L
    <3>3. table[A[k]] \in LiveRows(table) /\ table[A[k]].val # None
      BY <1>5, <3>2
    <3> QED
      BY <1>7, <3>1, <3>3 DEF Names
  <2>2. ASSUME NEW x \in Names(table) PROVE x \in ToSet(L)
    <3>1. PICK r \in LiveRows(table) : x = Canon[r.val]
      BY DEF Names
    <3>2. PICK i \in S : table[i] = r
      BY <1>6
    <3>3. PICK k \in 1 .. m : A[k] = i
      BY <1>3
    <3>4. k \in DOMAIN L /\ L[k] = x
      BY <1>7, <1>8, <3>1, <3>2, <3>3
    <3> HIDE DEF L
    <3> QED
      BY <3>4 DEF ToSet
  <2> QED
    BY <2>1, <2>2
<1> HIDE DEF L
<1>10. L \in Seq(Row) /\ DOMAIN L = 1 .. m
  BY <1>3, <1>8, GivenByPlaces
<1> QED
  BY <1>4, <1>7, <1>9, <1>10

-----------------------------------------------------------------------------
(* The invariants                                                          *)

\* Shapes.
TypeInv ==
    /\ TypeOK
    /\ pc # "writing" => json = <<>>
    /\ complete \in BOOLEAN /\ torn \in BOOLEAN /\ careless \in BOOLEAN
    /\ torn => careless

\* What the file is to the last save, if no write of it failed.  In the middle of it
\* the file and the lines not written yet make it up; afterwards a file that can be
\* read is a prefix of it, and all of it if the save was complete.
FileInv ==
    /\ pc = "writing" => ~complete
    /\ pc = "writing" /\ ~torn =>
        /\ gathered = file \o json
        /\ file \in Seq(Row)
        /\ \A i \in DOMAIN gathered : Canon[gathered[i]] = gathered[i]
    /\ pc # "writing" /\ ~torn /\ Readable(file) =>
        /\ Len(file) <= Len(gathered)
        /\ \A i \in DOMAIN file : Canon[file[i]] = gathered[i]
        /\ complete => Len(file) = Len(gathered)

\* Where the rows owed are while no process was careless: in the file, and once they
\* are loaded also in memory.
OwedInv ==
    ~careless =>
        /\ pc # "writing" => owed \subseteq Stored(file)
        /\ pc = "writing" => Loaded /\ owed \subseteq ToSet(gathered)
                             /\ ToSet(gathered) = Names(rows)
        /\ given # None /\ rows = None => given = file
        /\ Loaded => owed \subseteq Names(rows)

JInv == TypeInv /\ FileInv /\ OwedInv

\* The rows of a first file are the rows owed.
LEMMA InitInv == Init => JInv
<1> SUFFICES ASSUME Init PROVE JInv
  OBVIOUS
<1> DEFINE W == Whole(file)
<1>1. file \in Seq(FileLine)
  BY FileAssumption DEF Init, FileLine
<1>2. W \in Seq(Row) /\ ToSet(W) = ToSet(file) \ {Broken} /\ (Broken \notin ToSet(file) => W = file)
  BY <1>1, WholeIs
<1>3. gathered = [i \in DOMAIN W |-> Canon[W[i]]]
  BY DEF Init
<1> HIDE DEF W
<1>4. Len(W) \in Nat /\ DOMAIN W = 1 .. Len(W) /\ \A i \in DOMAIN W : W[i] \in Row
  BY <1>2, LenProperties, ElementOfSeq
<1>5. gathered \in [1 .. Len(W) -> Row]
  BY <1>3, <1>4, CanonAssumption
<1>6. gathered \in Seq(Row) /\ Len(gathered) = Len(W) /\ DOMAIN gathered = DOMAIN W
  BY <1>4, <1>5, GivenByPlaces
<1>7. TypeInv
  <2>1. complete \in BOOLEAN /\ careless \in BOOLEAN /\ torn = FALSE
    BY DEF Init, Readable
  <2>2. json \in Seq(Row) /\ file \in Seq(Row \union {Broken})
    BY <1>1, EmptySeq DEF Init, FileLine
  <2> QED
    BY <1>6, <2>1, <2>2 DEF Init, TypeInv, TypeOK
<1>8. FileInv
  <2>1. ASSUME Readable(file) PROVE W = file
    <3>1. \A i \in DOMAIN file : file[i] # Broken
      BY <2>1, CanonAssumption DEF Readable
    <3> QED
      BY <1>2, <3>1 DEF ToSet
  <2>3. pc # "writing"
    BY DEF Init
  <2>4. ASSUME Readable(file)
        PROVE  /\ Len(file) = Len(gathered)
               /\ \A i \in DOMAIN file : Canon[file[i]] = gathered[i]
    BY <1>3, <1>6, <2>1, <2>4
  <2>5. Len(file) \in Nat
    BY <1>1, LenProperties
  <2> QED
    BY <2>3, <2>4, <2>5 DEF FileInv
<1>9. owed = Stored(file)
  <2>1. owed = {gathered[i] : i \in DOMAIN gathered}
    BY DEF Init, ToSet
  <2>2. Stored(file) = {Canon[W[i]] : i \in DOMAIN W}
    BY DEF Stored, ToSet, W
  <2> QED
    BY <1>3, <1>6, <2>1, <2>2
<1>10. OwedInv
  BY <1>9 DEF Init, OwedInv, Loaded
<1> QED
  BY <1>7, <1>8, <1>10 DEF JInv

-----------------------------------------------------------------------------
(* Steps                                                                   *)

\* Whatever a client does to the rows is an edit that gives rows.
LEMMA EditIs ==
    ASSUME TypeInv, Add \/ (rows # None /\ (Change \/ Del))
    PROVE  rows # None /\ pc = "up" /\ \E table \in Seq(MemRow) : Edit(table)
<1>1. rows # None /\ pc = "up"
  BY DEF Add, Change, Del, Edit
<1>2. rows \in Seq(MemRow)
  BY <1>1 DEF TypeInv, TypeOK
<1>3. DOMAIN rows = 1 .. Len(rows) /\ \A i \in DOMAIN rows : rows[i] \in MemRow
  BY <1>2, LenProperties, ElementOfSeq
<1>4. CASE Add
  <2> DEFINE new == [val |-> None, stat |-> "UPDATE_ROW"]
  <2>1. new \in MemRow
    BY DEF MemRow
  <2>2. Append(rows, new) \in Seq(MemRow)
    <3> HIDE DEF new
    <3> QED
      BY <1>2, <2>1, AppendProperties
  <2>3. Edit(Append(rows, new))
    BY <1>4 DEF Add
  <2> HIDE DEF new
  <2> QED
    BY <1>1, <2>2, <2>3
<1>5. CASE Change
  <2>1. PICK i \in DOMAIN rows, r \in Row \ Shifted :
            Edit([rows EXCEPT ![i] = [val |-> r, stat |-> "UPDATE_ROW"]])
    BY <1>5 DEF Change
  <2> DEFINE new == [val |-> r, stat |-> "UPDATE_ROW"]
  <2>2. new \in MemRow
    BY DEF MemRow
  <2>3. [rows EXCEPT ![i] = new] \in Seq(MemRow)
    <3> HIDE DEF new
    <3> QED
      BY <1>2, <1>3, <2>2, ExceptSeq
  <2> QED
    BY <1>1, <2>1, <2>3
<1>6. CASE Del
  <2>1. PICK i \in DOMAIN rows : Edit([rows EXCEPT ![i].stat = "DELETE_ROW"])
    BY <1>6 DEF Del
  <2> DEFINE new == [rows[i] EXCEPT !.stat = "DELETE_ROW"]
  <2>2. new \in MemRow
    BY <1>3 DEF MemRow
  <2>3. [rows EXCEPT ![i].stat = "DELETE_ROW"] = [rows EXCEPT ![i] = new]
    BY <1>3
  <2>4. [rows EXCEPT ![i] = new] \in Seq(MemRow)
    <3> HIDE DEF new
    <3> QED
      BY <1>2, <1>3, <2>2, ExceptSeq
  <2> QED
    BY <1>1, <2>1, <2>3, <2>4
<1> QED
  BY <1>1, <1>4, <1>5, <1>6

\* The rows that init_data gives.
LEMMA IndexedIs ==
    ASSUME NEW table \in Seq(Row)
    PROVE  /\ Indexed(table) \in Seq(MemRow)
           /\ ToSet(table) \intersect Shifted = {} =>
                Names(Indexed(table)) = {Canon[l] : l \in ToSet(table)}
<1> DEFINE reached == {i \in DOMAIN table : \A j \in 1 .. i - 1 : table[j] \notin Shifted}
           row(i) == [val |-> IF i \in reached THEN table[i] ELSE None, stat |-> "NORMAL_ROW"]
           X == Indexed(table)
           n == Len(table)
<1>1. n \in Nat /\ DOMAIN table = 1 .. n /\ \A i \in 1 .. n : table[i] \in Row
  BY LenProperties, ElementOfSeq
<1>2. X = [i \in 1 .. n |-> row(i)]
  BY <1>1 DEF Indexed
<1>3. \A i \in 1 .. n : row(i) \in MemRow
  BY <1>1 DEF MemRow
<1>4. X \in [1 .. n -> MemRow]
  <2> HIDE DEF X, row
  <2> QED
    BY <1>2, <1>3
<1>5. X \in Seq(MemRow)
  <2> HIDE DEF X
  <2> QED
    BY <1>1, <1>4, GivenByPlaces
<1>6. ASSUME ToSet(table) \intersect Shifted = {}
      PROVE  Names(X) = {Canon[l] : l \in ToSet(table)}
  <2>1. \A i \in 1 .. n : i \in reached
    <3>1. \A j \in 1 .. n : table[j] \notin Shifted
      BY <1>1, <1>6 DEF ToSet
    <3> QED
      BY <1>1, <3>1
  <2>2. \A i \in 1 .. n : X[i].val = table[i] /\ X[i].stat = "NORMAL_ROW"
    BY <1>2, <2>1
  <2>3. {x \in LiveRows(X) : x.val # None} = ToSet(X)
    <3>1. \A x \in ToSet(X) : x.stat # "DELETE_ROW" /\ x.val # None
      <4> HIDE DEF X, reached
      <4>1. DOMAIN X = 1 .. n
        BY <1>4
      <4> QED
        BY <1>1, <2>2, <4>1, CanonAssumption DEF ToSet
    <3> HIDE DEF X
    <3> QED
      BY <3>1 DEF LiveRows
  <2>4. Names(X) = {Canon[x.val] : x \in ToSet(X)}
    BY <2>3 DEF Names
  <2> HIDE DEF X, reached
  <2>5. DOMAIN X = DOMAIN table /\ \A i \in DOMAIN table : X[i].val = table[i]
    BY <1>1, <1>4, <2>2
  <2>6. {Canon[x.val] : x \in ToSet(X)} = {Canon[l] : l \in ToSet(table)}
    BY <2>5 DEF ToSet
  <2> QED
    BY <2>4, <2>6
<1> QED
  BY <1>5, <1>6

\* A file that can be read holds rows only.
LEMMA LoadIs ==
    ASSUME file \in Seq(FileLine), NEW opens, Load(opens) # None
    PROVE  Load(opens) = file /\ Readable(file) /\ file \in Seq(Row \ Long)
           /\ Whole(file) = file
<1>1. Load(opens) = file /\ Readable(file)
  BY DEF Load
<1>2. Len(file) \in Nat /\ file \in [1 .. Len(file) -> Row \ Long]
  <2>1. Len(file) \in Nat /\ file \in [1 .. Len(file) -> FileLine]
    BY LenProperties
  <2> QED
    BY <1>1, <2>1 DEF Readable
<1>3. file \in Seq(Row \ Long)
  BY <1>2, GivenByPlaces
<1>4. Broken \notin ToSet(file)
  BY <1>2, CanonAssumption DEF ToSet
<1> QED
  BY <1>1, <1>3, <1>4, WholeIs

\* What save gathers.
LEMMA GatheredIs ==
    ASSUME TypeInv, ~Unreadable
    PROVE  /\ Gathered \in Seq(Row)
           /\ \A i \in DOMAIN Gathered : Canon[Gathered[i]] = Gathered[i]
           /\ rows # None => ToSet(Gathered) = Names(rows)
<1> USE DEF Gathered
<1>1. CASE rows = None
  BY <1>1, EmptySeq
<1>2. CASE rows # None
  <2>1. rows \in Seq(MemRow) /\ \A r \in LiveRows(rows) : r.val # None
    BY <1>2 DEF TypeInv, TypeOK, Unreadable
  <2> QED
    BY <1>2, <2>1, LinesAre
<1> QED
  BY <1>1, <1>2

\* What a call of save comes to.
LEMMA SaveIs ==
    ASSUME NEW opens, Save(opens)
    PROVE  /\ pc = "up"
           /\ \/ Die /\ UNCHANGED <<file, ghosts>>
              \/ ~Unreadable /\ OpenFile
              \/ UNCHANGED vars
BY DEF Save

\* Another line at the end of the file.
LEMMA FileAppend ==
    ASSUME file \in Seq(FileLine), NEW l \in FileLine
    PROVE  /\ Append(file, l) \in Seq(FileLine)
           /\ DOMAIN Append(file, l) = 1 .. Len(file) + 1
           /\ Append(file, l)[Len(file) + 1] = l
           /\ Len(file) \in Nat
<1>1. Append(file, l) \in Seq(FileLine) /\ Len(Append(file, l)) = Len(file) + 1
      /\ Append(file, l)[Len(file) + 1] = l
  BY AppendProperties
<1> QED
  BY <1>1, LenProperties

\* The shapes are kept.
LEMMA StepTyped == TypeInv /\ [Next]_vars => TypeInv'
<1> SUFFICES ASSUME TypeInv, [Next]_vars PROVE TypeInv'
  OBVIOUS
<1> USE DEF TypeInv, TypeOK
<1>0. file \in Seq(FileLine) /\ json \in Seq(Row)
  BY DEF FileLine
<1>1. CASE Start
  BY <1>1 DEF Start, memory, ghosts
<1>2. ASSUME NEW opens \in BOOLEAN, InitDao(opens) PROVE TypeInv'
  <2>1. UNCHANGED <<pc, file, rows, json, gathered, complete, torn, careless>> /\ rows = None
        /\ isInit' = TRUE /\ pc = "up"
    BY <1>2 DEF InitDao, ghosts
  <2>2. CASE isInit
    BY <1>2, <2>1, <2>2 DEF InitDao
  <2>3. CASE ~isInit
    <3>1. given' = Load(opens) /\ ret' = IF given' = None THEN -1 ELSE 0
      BY <1>2, <2>3 DEF InitDao
    <3>2. ret' # None
      BY <3>1, CanonAssumption
    <3>3. given' # None => given' \in Seq(Row \ Long) /\ ret' = 0
      BY <1>0, <3>1, LoadIs
    <3> QED
      BY <2>1, <3>2, <3>3
  <2> QED
    BY <2>2, <2>3
<1>3. CASE InitData
  <2>1. /\ pc = "up" /\ given # None /\ rows = None /\ rows' = Indexed(given)
        /\ UNCHANGED <<pc, file, isInit, ret, given, json, gathered, complete, torn, careless>>
    BY <1>3 DEF InitData, ghosts
  <2>2. given \in Seq(Row)
    BY <2>1, SeqMonotonic
  <2>3. rows' \in Seq(MemRow)
    BY <2>1, <2>2, IndexedIs
  <2> QED
    BY <2>1, <2>3
<1>4. CASE Add \/ (rows # None /\ (Change \/ Del))
  <2>1. rows # None /\ pc = "up" /\ \E table \in Seq(MemRow) : Edit(table)
    BY <1>4, EditIs
  <2>2. /\ rows' \in Seq(MemRow)
        /\ UNCHANGED <<pc, file, isInit, ret, given, json, gathered, complete, torn, careless>>
    BY <2>1 DEF Edit
  <2> QED
    BY <2>1, <2>2
<1>5. ASSUME NEW opens \in BOOLEAN, Save(opens) PROVE TypeInv'
  <2>1. CASE Die /\ UNCHANGED <<file, ghosts>>
    BY <2>1, EmptySeq DEF Die, Cleared, ghosts
  <2>2. CASE ~Unreadable /\ OpenFile
    <3>1. json' \in Seq(Row)
      BY <2>2, GatheredIs DEF OpenFile
    <3>2. file' \in Seq(FileLine)
      BY <2>2, EmptySeq DEF OpenFile
    <3>3. careless' \in BOOLEAN /\ torn' = FALSE
      BY <2>2 DEF OpenFile
    <3> QED
      BY <1>5, <2>2, <3>1, <3>2, <3>3 DEF OpenFile, FileLine
  <2>3. CASE UNCHANGED vars
    BY <2>3 DEF vars, memory, ghosts
  <2> QED
    BY <1>5, <2>1, <2>2, <2>3, SaveIs
<1>6. CASE WriteLine
  <2>1. json # <<>> /\ file' = Append(file, Head(json)) /\ json' = Tail(json) /\ pc = "writing"
        /\ UNCHANGED <<pc, isInit, ret, given, rows, gathered, complete, torn, careless>>
    BY <1>6 DEF WriteLine, ghosts
  <2>2. json' \in Seq(Row) /\ Head(json) \in FileLine
    BY <1>0, <2>1, HeadTailProperties DEF FileLine
  <2>3. file' \in Seq(FileLine)
    BY <1>0, <2>1, <2>2, FileAppend
  <2> QED
    BY <2>1, <2>2, <2>3 DEF FileLine
<1>7. CASE WriteFails
  <2>1. /\ json # <<>> /\ json' = Tail(json) /\ pc = "writing"
        /\ torn' = TRUE /\ careless' = TRUE
        /\ UNCHANGED <<pc, isInit, ret, given, rows, gathered, complete>>
    BY <1>7 DEF WriteFails
  <2>2. file' = file \/ \E l \in FileLine : file' = Append(file, l)
    BY <1>7, CanonAssumption DEF WriteFails, FileLine
  <2>3. json' \in Seq(Row)
    BY <1>0, <2>1, HeadTailProperties
  <2>4. file' \in Seq(FileLine)
    BY <1>0, <2>2, FileAppend
  <2> QED
    BY <2>1, <2>3, <2>4 DEF FileLine
<1>8. CASE EndSave
  BY <1>8 DEF EndSave, memory
<1>9. CASE Crash
  <2>1. /\ Cleared /\ UNCHANGED <<gathered, complete, torn>> /\ pc' = "down"
        /\ careless' \in BOOLEAN /\ (careless => careless')
    BY <1>9 DEF Crash, Die
  <2>2. file' \in Seq(FileLine)
    BY <1>0, <1>9, FileAppend DEF Crash, FileLine
  <2> QED
    BY <2>1, <2>2, EmptySeq DEF Cleared, FileLine
<1>10. CASE UNCHANGED vars
  BY <1>10 DEF vars, memory, ghosts
<1> QED
  BY <1>1, <1>2, <1>3, <1>4, <1>5, <1>6, <1>7, <1>8, <1>9, <1>10 DEF Next

\* Loads and edits leave the file to the last save as it is; save writes its lines
\* one after the other, and a crash leaves those written, perhaps with a cut one.
LEMMA StepFile == TypeInv /\ FileInv /\ [Next]_vars => FileInv'
<1> SUFFICES ASSUME TypeInv, FileInv, [Next]_vars PROVE FileInv'
  OBVIOUS
<1>0. /\ file \in Seq(FileLine) /\ json \in Seq(Row) /\ gathered \in Seq(Row)
      /\ complete \in BOOLEAN /\ torn \in BOOLEAN
      /\ Len(file) \in Nat /\ DOMAIN file = 1 .. Len(file)
      /\ Len(gathered) \in Nat /\ DOMAIN gathered = 1 .. Len(gathered)
  <2>1. /\ file \in Seq(FileLine) /\ json \in Seq(Row) /\ gathered \in Seq(Row)
        /\ complete \in BOOLEAN /\ torn \in BOOLEAN
    BY DEF TypeInv, TypeOK, FileLine
  <2> QED
    BY <2>1, LenProperties
<1>1. CASE UNCHANGED <<file, json, gathered, complete, torn>>
           /\ (pc' = pc \/ (pc # "writing" /\ pc' # "writing"))
  BY <1>1 DEF FileInv, Readable
<1>2. CASE Start \/ InitData \/ UNCHANGED vars
  BY <1>1, <1>2 DEF Start, InitData, vars, memory, ghosts
<1>3. ASSUME NEW opens \in BOOLEAN, InitDao(opens) PROVE FileInv'
  BY <1>1, <1>3 DEF InitDao, ghosts
<1>4. CASE Add \/ (rows # None /\ (Change \/ Del))
  <2>1. \E table \in Seq(MemRow) : Edit(table)
    BY <1>4, EditIs
  <2> QED
    BY <1>1, <2>1 DEF Edit
<1>5. ASSUME NEW opens \in BOOLEAN, Save(opens) PROVE FileInv'
  <2>1. pc = "up"
    BY <1>5, SaveIs
  <2>2. CASE Die /\ UNCHANGED <<file, ghosts>>
    <3>1. UNCHANGED <<file, gathered, complete, torn>> /\ json' = <<>> /\ pc' = "down"
      BY <2>2 DEF Die, Cleared, ghosts
    <3>2. json = <<>>
      BY <2>1 DEF TypeInv
    <3> QED
      BY <1>1, <2>1, <3>1, <3>2
  <2>3. CASE ~Unreadable /\ OpenFile
    <3>1. /\ pc' = "writing" /\ file' = <<>> /\ gathered' = json' /\ complete' = FALSE
          /\ json' = Gathered
      BY <2>3 DEF OpenFile
    <3>2. json' \in Seq(Row) /\ \A i \in DOMAIN json' : Canon[json'[i]] = json'[i]
      BY <2>3, <3>1, GatheredIs
    <3>3. <<>> \o json' = json' /\ <<>> \in Seq(Row)
      BY <3>2, ConcatEmptySeq, EmptySeq
    <3>4. gathered' = file' \o json' /\ file' \in Seq(Row) /\ ~complete'
      BY <3>1, <3>3
    <3> QED
      BY <3>1, <3>2, <3>4 DEF FileInv
  <2>4. CASE UNCHANGED vars
    BY <1>2, <2>4
  <2> QED
    BY <1>5, <2>2, <2>3, <2>4, SaveIs
<1>6. CASE WriteLine
  <2>1. /\ pc = "writing" /\ json # <<>> /\ UNCHANGED <<pc, gathered, complete, torn>>
        /\ file' = Append(file, Head(json)) /\ json' = Tail(json)
    BY <1>6 DEF WriteLine, ghosts
  <2> SUFFICES ASSUME ~torn PROVE FileInv'
    BY <2>1 DEF FileInv
  <2>2. file \in Seq(Row) /\ gathered = file \o json /\ ~complete
        /\ \A i \in DOMAIN gathered : Canon[gathered[i]] = gathered[i]
    BY <2>1 DEF FileInv
  <2>3. Head(json) \in Row /\ Tail(json) \in Seq(Row) /\ json = <<Head(json)>> \o Tail(json)
    <3>1. Head(json) \in Row /\ Tail(json) \in Seq(Row) /\ Len(json) \in Nat \ {0}
      BY <1>0, <2>1, HeadTailProperties, EmptySeq
    <3>2. json = SubSeq(json, 1, Len(json)) /\ Tail(json) = SubSeq(json, 2, Len(json))
      BY <1>0, <2>1, SubSeqFull, TailIsSubSeq
    <3>3. 1 \in 1 .. Len(json) /\ Len(json) \in 1 .. Len(json)
      BY <3>1
    <3>4. SubSeq(json, 1, Len(json)) = <<json[1]>> \o SubSeq(json, 1 + 1, Len(json))
      BY <1>0, <3>3, SubSeqRecursiveFirst
    <3>5. Head(json) = json[1]
      BY <1>0, <2>1, <3>2, <3>3, HeadTailOfSubSeq
    <3>6. 1 + 1 = 2
      OBVIOUS
    <3> QED
      BY <3>1, <3>2, <3>4, <3>5, <3>6
  <2>4. file' \in Seq(Row) /\ file' = file \o <<Head(json)>>
    BY <2>1, <2>2, <2>3, AppendProperties, AppendIsConcat
  <2>5. gathered = file' \o json'
    <3>1. <<Head(json)>> \in Seq(Row)
      BY <2>3
    <3>2. (file \o <<Head(json)>>) \o Tail(json) = file \o (<<Head(json)>> \o Tail(json))
      BY <2>2, <2>3, <3>1, ConcatAssociative
    <3> QED
      BY <2>1, <2>2, <2>3, <2>4, <3>2
  <2> QED
    BY <2>1, <2>2, <2>4, <2>5 DEF FileInv
<1>7. CASE WriteFails
  BY <1>7 DEF WriteFails, FileInv
<1>8. CASE EndSave
  <2>1. /\ pc = "writing" /\ json = <<>> /\ pc' = "up" /\ complete' = TRUE
        /\ UNCHANGED <<file, json, gathered, torn>>
    BY <1>8 DEF EndSave, memory
  <2> SUFFICES ASSUME ~torn PROVE FileInv'
    BY <2>1 DEF FileInv
  <2>2. gathered = file
        /\ \A i \in DOMAIN gathered : Canon[gathered[i]] = gathered[i]
    <3>1. file \in Seq(Row) /\ gathered = file \o <<>>
          /\ \A i \in DOMAIN gathered : Canon[gathered[i]] = gathered[i]
      BY <2>1 DEF FileInv
    <3> QED
      BY <3>1, ConcatEmptySeq
  <2> QED
    BY <1>0, <2>1, <2>2 DEF FileInv
<1>9. CASE Crash
  <2>1. /\ pc # "down" /\ pc' = "down" /\ UNCHANGED <<gathered, complete, torn>> /\ json' = <<>>
        /\ (file' = file \/ (json # <<>> /\ file' = Append(file, Broken)))
    BY <1>9 DEF Crash, Die, Cleared
  <2> SUFFICES ASSUME ~torn PROVE FileInv'
    BY <2>1 DEF FileInv
  <2>2. CASE pc # "writing"
    <3>1. json = <<>> /\ file' = file
      BY <2>1, <2>2 DEF TypeInv
    <3> QED
      BY <1>1, <2>1, <2>2, <3>1
  <2>3. CASE pc = "writing"
    <3>1. /\ ~complete /\ gathered = file \o json /\ file \in Seq(Row)
          /\ \A i \in DOMAIN gathered : Canon[gathered[i]] = gathered[i]
      BY <2>3 DEF FileInv
    <3>2. /\ Len(gathered) = Len(file) + Len(json) /\ Len(json) \in Nat
          /\ \A i \in 1 .. Len(file) + Len(json) :
                gathered[i] = IF i <= Len(file) THEN file[i] ELSE json[i - Len(file)]
      BY <1>0, <3>1, ConcatProperties, LenProperties
    <3>3. CASE file' = file
      <4>1. Len(file) <= Len(gathered)
        BY <1>0, <3>2
      <4>2. ASSUME NEW i \in DOMAIN file PROVE Canon[file[i]] = gathered[i]
        <5>1. i \in 1 .. Len(file) + Len(json) /\ i <= Len(file) /\ i \in DOMAIN gathered
          BY <1>0, <3>2
        <5>2. gathered[i] = file[i]
          BY <3>2, <5>1
        <5> QED
          BY <3>1, <5>1, <5>2
      <4> QED
        BY <2>1, <3>1, <3>3, <4>1, <4>2 DEF FileInv
    <3>4. CASE file' = Append(file, Broken)
      <4>1. DOMAIN file' = 1 .. Len(file) + 1 /\ file'[Len(file) + 1] = Broken
        BY <1>0, <3>4, FileAppend DEF FileLine
      <4>2. ~Readable(file')
        <5>1. Len(file) + 1 \in DOMAIN file'
          BY <1>0, <4>1
        <5> QED
          BY <4>1, <5>1, CanonAssumption DEF Readable
      <4>3. ~Readable(file)'
        BY <4>2 DEF Readable
      <4> QED
        BY <2>1, <3>1, <4>3 DEF FileInv
    <3> QED
      BY <2>1, <3>3, <3>4
  <2> QED
    BY <2>2, <2>3
<1> QED
  BY <1>2, <1>3, <1>4, <1>5, <1>6, <1>7, <1>8, <1>9 DEF Next

\* The rows owed are in the file, in memory or in the save that is under way: an edit
\* takes a row from them when it takes it from the rows in memory.
LEMMA StepOwed == TypeInv /\ FileInv /\ OwedInv /\ [Next]_vars => OwedInv'
<1> SUFFICES ASSUME TypeInv, FileInv, OwedInv, [Next]_vars, ~careless' PROVE OwedInv'
  BY DEF OwedInv
<1>0. file \in Seq(FileLine) /\ gathered \in Seq(Row) /\ careless \in BOOLEAN
  BY DEF TypeInv, TypeOK, FileLine
<1>1. CASE Start
  <2>1. pc = "down" /\ pc' = "up" /\ UNCHANGED <<file, memory, ghosts>>
    BY <1>1 DEF Start
  <2> QED
    BY <2>1 DEF memory, ghosts, OwedInv, Loaded, Stored, Names, LiveRows
<1>2. ASSUME NEW opens \in BOOLEAN, InitDao(opens) PROVE OwedInv'
  <2>1. /\ pc = "up" /\ rows = None
        /\ UNCHANGED <<pc, file, rows, json, gathered, complete, owed, careless>>
    BY <1>2 DEF InitDao, ghosts
  <2>2. given' = given \/ given' = Load(opens)
    BY <1>2 DEF InitDao
  <2>3. (given # None => given = file) /\ owed \subseteq Stored(file)
    BY <2>1 DEF OwedInv
  <2>4. given' # None => given' = file
    BY <1>0, <2>2, <2>3, LoadIs
  <2> QED
    BY <2>1, <2>3, <2>4 DEF OwedInv, Loaded, Stored
<1>3. CASE InitData
  <2>1. /\ pc = "up" /\ given # None /\ rows = None /\ rows' = Indexed(given)
        /\ UNCHANGED <<pc, file, given, json, gathered, complete, owed, careless>>
    BY <1>3 DEF InitData, ghosts
  <2>2. given = file /\ owed \subseteq Stored(file)
    BY <2>1 DEF OwedInv
  <2>3. given \in Seq(Row \ Long) /\ given \in Seq(Row)
    <3>1. given \in Seq(Row \ Long)
      BY <2>1 DEF TypeInv, TypeOK
    <3> QED
      BY <3>1, SeqMonotonic
  <2>4. Broken \notin ToSet(file)
    <3>1. \A i \in DOMAIN given : given[i] \in Row
      BY <2>3, LenProperties, ElementOfSeq
    <3> QED
      BY <2>2, <3>1, CanonAssumption DEF ToSet
  <2>5. Stored(file) = {Canon[l] : l \in ToSet(given)}
    BY <1>0, <2>2, <2>4, WholeIs DEF Stored
  <2>6. ToSet(given) \intersect Shifted = {} => owed \subseteq Names(rows')
    BY <2>1, <2>2, <2>3, <2>5, IndexedIs
  <2>7. Names(rows)' = Names(rows')
    BY DEF Names, LiveRows
  <2> QED
    BY <2>1, <2>2, <2>6, <2>7 DEF OwedInv, Loaded, Stored
<1>4. CASE Add \/ (rows # None /\ (Change \/ Del))
  <2>1. PICK table \in Seq(MemRow) : Edit(table)
    BY <1>4, EditIs
  <2>2. /\ pc = "up" /\ rows # None /\ rows' = table
        /\ owed' = owed \ (Names(rows) \ Names(table))
        /\ UNCHANGED <<pc, file, given, json, gathered, complete, torn, careless>>
    BY <2>1 DEF Edit
  <2>3. owed \subseteq Stored(file) /\ (Loaded => owed \subseteq Names(rows))
    BY <2>2 DEF OwedInv
  <2>4. owed' \subseteq Stored(file) /\ (Loaded => owed' \subseteq Names(table))
    BY <2>2, <2>3
  <2>5. Loaded' => Loaded
    BY <2>2 DEF Loaded
  <2>6. Names(rows)' = Names(table) /\ Stored(file)' = Stored(file)
    BY <2>2 DEF Names, LiveRows, Stored
  <2>7. given' # None /\ rows' = None => given' = file'
    BY <2>2, CanonAssumption DEF OwedInv
  <2> QED
    BY <2>2, <2>4, <2>5, <2>6, <2>7 DEF OwedInv
<1>5. ASSUME NEW opens \in BOOLEAN, Save(opens) PROVE OwedInv'
  <2>0. pc = "up"
    BY <1>5, SaveIs
  <2>1. CASE Die /\ UNCHANGED <<file, ghosts>>
    <3>1. /\ pc' = "down" /\ UNCHANGED <<file, owed, careless>>
          /\ given' = None /\ rows' = None
      BY <2>1 DEF Die, Cleared, ghosts
    <3> QED
      BY <2>0, <3>1 DEF OwedInv, Loaded, Stored
  <2>2. CASE ~Unreadable /\ OpenFile
    <3>1. /\ pc' = "writing" /\ json' = Gathered
          /\ gathered' = json' /\ careless' = (careless \/ ~Loaded)
          /\ UNCHANGED <<given, rows, owed>>
      BY <2>2 DEF OpenFile
    <3>2. ~careless /\ Loaded
      BY <1>0, <3>1
    <3>3. rows # None /\ owed \subseteq Names(rows)
      BY <3>2 DEF OwedInv, Loaded
    <3>4. ToSet(gathered') = Names(rows)
      BY <2>2, <3>1, <3>3, GatheredIs
    <3>5. Loaded' /\ Names(rows)' = Names(rows) /\ ToSet(gathered)' = ToSet(gathered')
      BY <3>1, <3>2 DEF Loaded, Names, LiveRows, ToSet
    <3> QED
      BY <3>1, <3>3, <3>4, <3>5 DEF OwedInv
  <2>3. CASE UNCHANGED vars
    <3>1. UNCHANGED <<pc, file, given, rows, gathered, owed, careless>>
      BY <2>3 DEF vars, memory, ghosts
    <3> QED
      BY <3>1 DEF OwedInv, Loaded, Stored, Names, LiveRows, ToSet
  <2> QED
    BY <1>5, <2>1, <2>2, <2>3, SaveIs
<1>6. CASE WriteLine
  <2>1. pc = "writing" /\ UNCHANGED <<pc, given, rows, gathered, owed, careless>>
    BY <1>6 DEF WriteLine, ghosts
  <2>2. Loaded /\ rows # None
    BY <2>1 DEF OwedInv, Loaded
  <2> QED
    BY <2>1, <2>2 DEF OwedInv, Loaded, Names, LiveRows, ToSet
<1>7. CASE WriteFails
  BY <1>7 DEF WriteFails
<1>8. CASE EndSave
  <2>1. /\ pc = "writing" /\ json = <<>> /\ pc' = "up"
        /\ owed' = owed \union ToSet(gathered)
        /\ UNCHANGED <<file, given, rows, gathered, careless>>
    BY <1>8 DEF EndSave, memory
  <2>2. /\ Loaded /\ rows # None /\ owed \subseteq ToSet(gathered)
        /\ ToSet(gathered) = Names(rows)
    BY <2>1 DEF OwedInv, Loaded
  <2>3. /\ file \in Seq(Row) /\ gathered = file
        /\ \A i \in DOMAIN file : Canon[file[i]] = file[i]
    <3>0. ~torn
      BY <2>1 DEF TypeInv
    <3>1. file \in Seq(Row) /\ gathered = file \o <<>>
          /\ \A i \in DOMAIN gathered : Canon[gathered[i]] = gathered[i]
      BY <2>1, <3>0 DEF FileInv
    <3> QED
      BY <3>1, ConcatEmptySeq
  <2>4. Stored(file) = ToSet(file)
    <3>1. \A i \in DOMAIN file : file[i] \in Row
      BY <2>3, LenProperties, ElementOfSeq
    <3>2. Broken \notin ToSet(file)
      BY <3>1, CanonAssumption DEF ToSet
    <3>3. Stored(file) = {Canon[l] : l \in ToSet(file)}
      BY <1>0, <3>2, WholeIs DEF Stored
    <3>4. \A l \in ToSet(file) : Canon[l] = l
      BY <2>3 DEF ToSet
    <3> QED
      BY <3>3, <3>4
  <2>5. owed' \subseteq Stored(file) /\ owed' \subseteq Names(rows)
    BY <2>1, <2>2, <2>3, <2>4
  <2>6. Names(rows)' = Names(rows) /\ Stored(file)' = Stored(file)
    BY <2>1 DEF Names, LiveRows, Stored
  <2> QED
    BY <2>1, <2>2, <2>5, <2>6 DEF OwedInv
<1>9. CASE Crash
  <2>1. /\ pc' = "down" /\ given' = None /\ rows' = None
        /\ (file' = file \/ json # <<>>) /\ UNCHANGED owed
        /\ careless' = (careless \/ pc = "writing")
    BY <1>9 DEF Crash, Die, Cleared
  <2>2. ~careless /\ pc # "writing"
    BY <1>0, <2>1
  <2>3. file' = file /\ owed \subseteq Stored(file)
    BY <2>1, <2>2 DEF TypeInv, OwedInv
  <2> QED
    BY <2>1, <2>3 DEF OwedInv, Loaded, Stored
<1>10. CASE UNCHANGED vars
  <2>1. UNCHANGED <<pc, file, given, rows, gathered, owed, careless>>
    BY <1>10 DEF vars, memory, ghosts
  <2>2. Loaded' = Loaded /\ Stored(file)' = Stored(file) /\ Names(rows)' = Names(rows)
        /\ ToSet(gathered)' = ToSet(gathered)
    BY <2>1 DEF Loaded, Stored, Names, LiveRows, ToSet
  <2> QED
    BY <2>1, <2>2 DEF OwedInv
<1> QED
  BY <1>1, <1>2, <1>3, <1>4, <1>5, <1>6, <1>7, <1>8, <1>9, <1>10 DEF Next

-----------------------------------------------------------------------------
(* The theorems                                                            *)

LEMMA InvHolds == Spec => []JInv
<1>1. JInv /\ [Next]_vars => JInv'
  BY StepTyped, StepFile, StepOwed DEF JInv
<1> QED
  BY <1>1, InitInv, PTL DEF Spec

\* The state of the file, of the DAOs and of the rows keeps its shape.
THEOREM TypeCorrect == Spec => []TypeOK
<1>1. JInv => TypeOK
  BY DEF JInv, TypeInv
<1> QED
  BY <1>1, InvHolds, PTL

\* Unless a write of the last save failed, what a process loads is the rows it gathered,
\* up to one of them, or all of them if it ended, wherever processes died before.
THEOREM OneSaveCorrect == Spec => []LoadedIsOneSave
<1>1. JInv => LoadedIsOneSave
  <2> SUFFICES ASSUME JInv, pc = "up", ret = None, ~torn, Load(TRUE) # None
               PROVE  LET loaded == [i \in DOMAIN Load(TRUE) |-> Canon[Load(TRUE)[i]]] IN
                      /\ IsPrefix(loaded, gathered)
                      /\ complete => loaded = gathered
    BY DEF LoadedIsOneSave
  <2>1. file \in Seq(FileLine) /\ gathered \in Seq(Row)
    BY DEF JInv, TypeInv, TypeOK, FileLine
  <2>2. Load(TRUE) = file /\ Readable(file) /\ file \in Seq(Row \ Long)
    BY <2>1, LoadIs
  <2> DEFINE loaded == [i \in DOMAIN file |-> Canon[file[i]]]
  <2>3. /\ Len(file) <= Len(gathered)
        /\ \A i \in DOMAIN file : Canon[file[i]] = gathered[i]
        /\ complete => Len(file) = Len(gathered)
    BY <2>2 DEF JInv, FileInv
  <2>4. Len(file) \in Nat /\ DOMAIN file = 1 .. Len(file)
        /\ \A i \in DOMAIN file : file[i] \in Row
    BY <2>2, LenProperties, ElementOfSeq
  <2>5. loaded \in [1 .. Len(file) -> Row]
    BY <2>4, CanonAssumption
  <2>6. \A i \in 1 .. Len(file) : loaded[i] = gathered[i]
    BY <2>3, <2>4
  <2> HIDE DEF loaded
  <2>7. loaded \in Seq(Row) /\ Len(loaded) = Len(file)
    BY <2>4, <2>5, GivenByPlaces
  <2>8. IsPrefix(loaded, gathered)
    BY <2>1, <2>3, <2>6, <2>7, PrefixIs
  <2>9. complete => loaded = gathered
    BY <2>1, <2>3, <2>6, <2>7, SeqEqual
  <2> QED
    BY <2>2, <2>8, <2>9 DEF loaded
<1> QED
  BY <1>1, InvHolds, PTL

\* While no process dies in save, ends one of which a write failed or saves what it
\* could not load, the file has every row that was saved and not deleted since, through
\* any number of processes.
THEOREM DurableCorrect == Spec => []Durable
<1>1. JInv => Durable
  BY DEF JInv, OwedInv, Durable, Stored
<1> QED
  BY <1>1, InvHolds, PTL
=============================================================================
