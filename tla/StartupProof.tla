---------------------------- MODULE StartupProof ----------------------------
(* Proofs about Startup: the listing of any tree of directories, the schema  *)
(* read from it, and the rows of the tables that one DAO has filled.         *)
EXTENDS Startup, NumberFacts, SequenceTheorems, TLAPS

-----------------------------------------------------------------------------
(* Sequences and depths                                                    *)

\* Sorting neither adds nor removes an entry, and puts the smaller ones first.
LEMMA SortedIs ==
    ASSUME files \in Seq(File)
    PROVE  /\ Sorted \in Seq(File) /\ Len(Sorted) = Len(files)
           /\ ToSet(Sorted) = ToSet(files)
           /\ (\A i, j \in DOMAIN files : files[i] = files[j] => i = j) =>
                \A i, j \in DOMAIN files : i < j => Sorted[i] < Sorted[j]
<1> DEFINE S == DOMAIN files
           n == Len(files)
           order == Arranged(S, Before)
<1>1. n \in Nat /\ S = 1 .. n /\ \A i \in S : files[i] \in File /\ files[i] \in Nat
  BY LenProperties, ElementOfSeq, TreeAssumption
<1>2. IsFiniteSet(S) /\ Cardinality(S) = n
  <2>1. IsFiniteSet(1 .. n) /\ Cardinality(1 .. n) = IF 1 > n THEN 0 ELSE n - 1 + 1
    BY <1>1, FS_Interval
  <2> QED
    BY <1>1, <2>1
<1>3. \A i, j \in S : <<i, j>> \in Before <=>
            (files[i] < files[j] \/ (files[i] = files[j] /\ i < j))
  BY DEF Before
<1>4. StrictOrder(S, Before)
  <2> SUFFICES ASSUME NEW x \in S, NEW y \in S, NEW z \in S
               PROVE  /\ <<x, x>> \notin Before
                      /\ x # y => (<<x, y>> \in Before \/ <<y, x>> \in Before)
                      /\ (<<x, y>> \in Before /\ <<y, z>> \in Before) => <<x, z>> \in Before
    BY DEF StrictOrder
  <2>1. x \in Int /\ y \in Int /\ z \in Int
        /\ files[x] \in Int /\ files[y] \in Int /\ files[z] \in Int
    BY <1>1
  <2> QED
    BY <1>3, <2>1
<1>5. /\ order \in [1 .. n -> S]
      /\ \A x \in S : \E k \in 1 .. n : order[k] = x
      /\ \A i, j \in 1 .. n : i < j => <<order[i], order[j]>> \in Before
      /\ \A i, j \in 1 .. n : order[i] = order[j] => i = j
  <2> HIDE DEF S, n
  <2> QED
    BY <1>2, <1>4, ArrangedIs
<1> HIDE DEF order
<1>6. Sorted = [k \in S |-> files[order[k]]]
  BY DEF Sorted, order
<1>7. Sorted \in Seq(File) /\ Len(Sorted) = n /\ DOMAIN Sorted = S
  <2>1. Sorted \in [1 .. n -> File]
    BY <1>1, <1>5, <1>6
  <2>2. Sorted \in Seq(File)
    BY <1>1, <2>1, IsASeq
  <2>3. Len(Sorted) = n
    BY <1>1, <2>1, <2>2, LenProperties
  <2> QED
    BY <1>6, <2>2, <2>3
<1>8. ToSet(Sorted) = ToSet(files)
  <2>1. ToSet(Sorted) = {files[order[k]] : k \in S}
    BY <1>6, <1>7 DEF ToSet
  <2>2. ToSet(files) = {files[i] : i \in S}
    BY DEF ToSet
  <2>3. \A k \in S : order[k] \in S
    BY <1>1, <1>5
  <2>4. \A i \in S : \E k \in S : order[k] = i
    BY <1>1, <1>5
  <2> HIDE DEF S
  <2> QED
    BY <2>1, <2>2, <2>3, <2>4
<1>9. ASSUME \A i, j \in S : files[i] = files[j] => i = j,
             NEW i \in S, NEW j \in S, i < j
      PROVE  Sorted[i] < Sorted[j]
  <2>1. order[i] \in S /\ order[j] \in S /\ order[i] # order[j]
        /\ <<order[i], order[j]>> \in Before
    BY <1>1, <1>5, <1>9
  <2>2. files[order[i]] < files[order[j]]
    BY <1>3, <1>9, <2>1
  <2> QED
    BY <1>6, <2>2
<1> QED
  BY <1>7, <1>8, <1>9

\* Another element at the end.
LEMMA Appended ==
    ASSUME NEW S, NEW s \in Seq(S), NEW e
    PROVE  LET new == Append(s, e) IN
           /\ Len(s) \in Nat /\ Len(new) = Len(s) + 1
           /\ DOMAIN s = 1 .. Len(s) /\ DOMAIN new = (1 .. Len(s)) \union {Len(s) + 1}
           /\ \A i \in 1 .. Len(s) : new[i] = s[i]
           /\ new[Len(s) + 1] = e
           /\ ToSet(new) = ToSet(s) \union {e}
<1> DEFINE new == Append(s, e)
           n == Len(s)
           T == S \union {e}
<1>1. s \in Seq(T) /\ e \in T
  BY SeqMonotonic
<1> HIDE DEF T
<1>2. n \in Nat /\ DOMAIN s = 1 .. n /\ DOMAIN new = 1 .. n + 1 /\ Len(new) = n + 1
      /\ (\A i \in 1 .. n : new[i] = s[i]) /\ new[n + 1] = e
  BY <1>1, AppendProperties, LenProperties
<1> HIDE DEF new, n
<1>3. 1 .. n + 1 = (1 .. n) \union {n + 1}
  BY <1>2
<1>4. ToSet(new) = ToSet(s) \union {e}
  BY <1>2, <1>3 DEF ToSet
<1> QED
  BY <1>2, <1>3, <1>4 DEF new, n

\* What is in a directory is a file, or a directory.
LEMMA FileIs ==
    ASSUME NEW t \in Trees, NEW d \in Dir, NEW f \in t[d], f \notin Dir
    PROVE  f \in File
<1> DEFINE All == UNION {UNION {u[e] : e \in Dir} : u \in Trees}
<1>1. f \in UNION {t[e] : e \in Dir}
  OBVIOUS
<1>2. UNION {t[e] : e \in Dir} \in {UNION {u[e] : e \in Dir} : u \in Trees}
  OBVIOUS
<1>3. f \in All
  BY <1>1, <1>2, Zenon
<1>4. File = All \ Dir
  BY DEF File
<1> HIDE DEF All
<1> QED
  BY <1>3, <1>4

\* The levels of the directories of a tree.
Deeper(t, level) == \A d \in Dir : \A e \in t[d] \intersect Dir : level[d] < level[e]
Depth(t) == CHOOSE level \in [Dir -> 0 .. Cardinality(Dir)] : Deeper(t, level)

LEMMA DepthIs ==
    ASSUME NEW t \in Trees
    PROVE  Depth(t) \in [Dir -> 0 .. Cardinality(Dir)] /\ Deeper(t, Depth(t))
BY AcyclicAssumption DEF Depth, Deeper

\* There are finitely many levels.
LEMMA Directories == Cardinality(Dir) \in Nat
BY AcyclicAssumption, FS_CardinalityType

-----------------------------------------------------------------------------
(* The calls of ls_dir                                                     *)

\* A call in tree t has entries of its directory left.
Calls(t) ==
    {c \in [dir : Openable, left : SUBSET UNION {t[d] : d \in Dir}] : c.left \subseteq t[c.dir]}

\* Each call is for a directory below that of the call before it.
Descending(t, s) ==
    \A i, j \in 1 .. Len(s) : i < j => Depth(t)[s[i].dir] < Depth(t)[s[j].dir]

\* A stack of calls in tree t.
Stack(t, s) == s \in Seq(Calls(t)) /\ Descending(t, s)

\* A call for a directory below the last call's.
LEMMA Pushed ==
    ASSUME NEW t \in Trees, NEW s, Stack(t, s), NEW d \in Openable,
           s = <<>> \/ d \in t[s[Len(s)].dir]
    PROVE  LET new == Append(s, [dir |-> d, left |-> t[d]]) IN
           /\ Stack(t, new) /\ Len(new) = Len(s) + 1
           /\ \A i \in 1 .. Len(s) : new[i] = s[i]
           /\ new[Len(s) + 1] = [dir |-> d, left |-> t[d]]
<1> DEFINE c == [dir |-> d, left |-> t[d]]
           new == Append(s, c)
           n == Len(s)
<1>1. c \in Calls(t)
  BY DEF Calls, Openable
<1> HIDE DEF c
<1>2. /\ new \in Seq(Calls(t)) /\ Len(new) = n + 1 /\ n \in Nat
      /\ \A i \in 1 .. n : new[i] = s[i]
      /\ new[n + 1] = c
  BY <1>1, AppendProperties, LenProperties DEF Stack
<1> HIDE DEF new
<1>3. \A e \in Dir : Depth(t)[e] \in Int
  BY DepthIs, Directories
<1>4. d \in Dir /\ \A i \in 1 .. n : s[i].dir \in Dir
  BY ElementOfSeq DEF Stack, Calls, Openable
<1>5. ASSUME NEW i \in 1 .. n PROVE Depth(t)[s[i].dir] < Depth(t)[d]
  <2>1. n \in 1 .. n /\ s # <<>>
    BY <1>2, EmptySeq
  <2>2. Depth(t)[s[n].dir] < Depth(t)[d]
    BY <1>4, <2>1, DepthIs DEF Deeper
  <2>3. i = n \/ Depth(t)[s[i].dir] < Depth(t)[s[n].dir]
    BY <1>2, <2>1 DEF Stack, Descending
  <2> QED
    BY <1>3, <1>4, <2>1, <2>2, <2>3
<1>6. ASSUME NEW i \in 1 .. Len(new), NEW j \in 1 .. Len(new), i < j
      PROVE  Depth(t)[new[i].dir] < Depth(t)[new[j].dir]
  <2>1. i \in 1 .. n /\ (j \in 1 .. n \/ j = n + 1)
    BY <1>2, <1>6
  <2>2. CASE j \in 1 .. n
    BY <1>2, <1>6, <2>1, <2>2 DEF Stack, Descending
  <2>3. CASE j = n + 1
    BY <1>2, <1>5, <2>1, <2>3 DEF c
  <2> QED
    BY <2>1, <2>2, <2>3
<1>7. Stack(t, new)
  BY <1>2, <1>6 DEF Stack, Descending
<1> QED
  BY <1>2, <1>7 DEF new, c

\* The last call has returned.
LEMMA Popped ==
    ASSUME NEW t \in Trees, NEW s, Stack(t, s), s # <<>>
    PROVE  /\ Stack(t, Front(s)) /\ Len(Front(s)) = Len(s) - 1
           /\ \A i \in 1 .. Len(s) - 1 : Front(s)[i] = s[i]
<1> DEFINE new == Front(s)
           n == Len(s)
<1>1. n \in Nat \ {0}
  BY EmptySeq DEF Stack
<1>2. \A i \in 1 .. n : s[i] \in Calls(t)
  BY ElementOfSeq DEF Stack
<1>3. new = SubSeq(s, 1, n - 1)
  BY DEF Front
<1>4. /\ new \in Seq(Calls(t)) /\ Len(new) = n - 1
      /\ \A i \in 1 .. n - 1 : new[i] = s[i]
  <2>1. 1 \in Int /\ n - 1 \in Int /\ \A i \in 1 .. n - 1 : s[i] \in Calls(t)
    BY <1>1, <1>2
  <2>2. /\ SubSeq(s, 1, n - 1) \in Seq(Calls(t))
        /\ Len(SubSeq(s, 1, n - 1)) = IF 1 <= n - 1 THEN n - 1 - 1 + 1 ELSE 0
        /\ \A i \in 1 .. n - 1 - 1 + 1 : SubSeq(s, 1, n - 1)[i] = s[1 + i - 1]
    BY <2>1, SubSeqProperties
  <2>3. n - 1 - 1 + 1 = n - 1 /\ (1 <= n - 1 \/ n - 1 = 0)
        /\ \A i \in 1 .. n - 1 : 1 + i - 1 = i
    <3> HIDE DEF n
    <3>1. n - 1 - 1 + 1 = n - 1 /\ (1 <= n - 1 \/ n - 1 = 0)
      BY <1>1
    <3>2. \A i \in 1 .. n - 1 : 1 + i - 1 = i
      OBVIOUS
    <3> QED
      BY <3>1, <3>2
  <2>4. new \in Seq(Calls(t)) /\ Len(new) = n - 1
    BY <1>3, <2>2, <2>3
  <2>5. ASSUME NEW i \in 1 .. n - 1 PROVE new[i] = s[i]
    <3>1. new[i] = s[1 + i - 1]
      BY <1>3, <2>2, <2>3
    <3> QED
      BY <2>3, <3>1
  <2> QED
    BY <2>4, <2>5
<1>5. Descending(t, new)
  BY <1>1, <1>4 DEF Stack, Descending
<1> QED
  BY <1>4, <1>5 DEF Stack

\* The last call has read an entry.
LEMMA Reading ==
    ASSUME NEW t \in Trees, Stack(t, stack), stack # <<>>, NEW e
    PROVE  /\ Stack(t, Read(e)) /\ Len(Read(e)) = Len(stack)
           /\ Read(e)[Len(stack)].dir = Top.dir
           /\ Read(e) # <<>>
           /\ Top \in Calls(t)
           /\ \A i \in 1 .. Len(stack) : Read(e)[i] =
                IF i = Len(stack) THEN [Top EXCEPT !.left = @ \ {e}] ELSE stack[i]
<1> DEFINE n == Len(stack)
           c == [Top EXCEPT !.left = @ \ {e}]
<1>1. n \in Nat \ {0} /\ n \in 1 .. n
  BY EmptySeq DEF Stack
<1>2. Top \in Calls(t)
  BY <1>1, ElementOfSeq DEF Stack, Top
<1>3. c \in Calls(t) /\ c.dir = Top.dir
  BY <1>2 DEF Calls, Openable
<1>4. Read(e) = [stack EXCEPT ![n] = c]
  BY <1>1 DEF Read, Top
<1> HIDE DEF c
<1>5. /\ Read(e) \in Seq(Calls(t)) /\ Len(Read(e)) = n
      /\ \A i \in 1 .. n : Read(e)[i] = IF i = n THEN c ELSE stack[i]
  BY <1>1, <1>3, <1>4, ExceptSeq DEF Stack
<1>6. \A i \in 1 .. n : Read(e)[i].dir = stack[i].dir
  BY <1>1, <1>3, <1>5 DEF Top
<1>7. Descending(t, Read(e))
  BY <1>5, <1>6 DEF Stack, Descending
<1>8. Read(e) # <<>>
  BY <1>1, <1>5, EmptySeq
<1> QED
  BY <1>1, <1>2, <1>3, <1>5, <1>7, <1>8 DEF Stack, c

-----------------------------------------------------------------------------
(* The listing                                                             *)

\* What a listing keeps: the calls on the stack are for directories each below the
\* one before, and only while the manager lists are there any.
Walk ==
    /\ tree \in Trees
    /\ files \in Seq(File)
    /\ Stack(tree, stack)
    /\ opened \in Int /\ depth \in Nat
    /\ pc # "listing" => stack = <<>>

LInv == Walk /\ ListingBounded /\ DirectoriesClosed

\* The lengths that the two properties compare.
LEMMA Lengths ==
    ASSUME Walk
    PROVE  Len(files) \in Nat /\ Len(stack) \in Nat /\ MaxFileNum \in Nat \ {0}
BY LenProperties, TreeAssumption DEF Walk, Stack

\* Nothing is listed and nothing open.
LEMMA InitListed == Init => LInv
<1> SUFFICES ASSUME Init PROVE LInv
  OBVIOUS
<1>1. tree \in Trees /\ files = <<>> /\ stack = <<>> /\ opened = 0 /\ depth = 0
  BY DEF Init, SInit, ListInit
<1>2. Walk
  BY <1>1, EmptySeq DEF Walk, Stack, Descending
<1> QED
  BY <1>1, <1>2, Lengths, EmptySeq DEF LInv, ListingBounded, DirectoriesClosed

\* The entry of ls_dir for a directory below the last call's: a call is added, with
\* its directory open, or neither.
LEMMA EnterKeeps ==
    ASSUME tree \in Trees, NEW s, Stack(tree, s), NEW d \in Dir,
           s = <<>> \/ d \in tree[s[Len(s)].dir],
           opened \in Int, Enter(s, d)
    PROVE  /\ Stack(tree, stack')
           /\ \/ Len(stack') = Len(s) /\ opened' = opened
              \/ Len(stack') = Len(s) + 1 /\ opened' = opened + 1 /\ ~Limit(Len(files))
<1>1. CASE Limit(Len(files)) \/ d \in Unreadable
  BY <1>1 DEF Enter
<1>2. CASE ~(Limit(Len(files)) \/ d \in Unreadable)
  <2>1. /\ stack' = Append(s, [dir |-> d, left |-> tree[d]]) /\ opened' = opened + 1
    BY <1>2 DEF Enter
  <2>2. Stack(tree, stack') /\ Len(stack') = Len(s) + 1
    BY <1>2, <2>1, Pushed DEF Openable
  <2> QED
    BY <1>2, <2>1, <2>2
<1> QED
  BY <1>1, <1>2

\* Each step of ls_dir and init does to the list, to the calls and to the open
\* directories one of these things.
LEMMA StepListed == LInv /\ [Next]_vars => LInv'
<1> SUFFICES ASSUME LInv, [Next]_vars PROVE LInv'
  OBVIOUS
<1> USE DEF LInv, ListingBounded, DirectoriesClosed, Limit
<1>0. /\ Len(files) \in Nat /\ Len(stack) \in Nat /\ MaxFileNum \in Nat \ {0}
      /\ opened \in Int /\ depth \in Nat
  BY Lengths DEF Walk
<1>1. CASE BeginInit
  <2>1. /\ pc' = "listing" /\ Enter(<<>>, Root) /\ UNCHANGED <<tree, files, depth>>
        /\ stack = <<>>
    BY <1>1 DEF BeginInit, BeginListing, Walk
  <2>2. Stack(tree, <<>>) /\ Len(<<>>) = 0
    BY <2>1, EmptySeq DEF Walk
  <2>3. /\ Stack(tree, stack')
        /\ \/ Len(stack') = 0 /\ opened' = opened
           \/ Len(stack') = 1 /\ opened' = opened + 1 /\ ~Limit(Len(files))
    <3> HIDE DEF Limit
    <3>1. Root \in Dir /\ tree \in Trees /\ opened \in Int /\ Enter(<<>>, Root)
      BY <2>1, TreeAssumption DEF Walk
    <3>2. /\ Stack(tree, stack')
          /\ \/ Len(stack') = Len(<<>>) /\ opened' = opened
             \/ Len(stack') = Len(<<>>) + 1 /\ opened' = opened + 1 /\ ~Limit(Len(files))
      BY <2>2, <3>1, EnterKeeps
    <3> QED
      BY <2>2, <3>2
  <2>4. Walk'
    BY <1>0, <2>1, <2>3 DEF Walk
  <2> QED
    <3>1. Len(stack) = 0 /\ files' = files /\ depth' = depth
      BY <2>1, <2>2
    <3>2. CASE Len(stack') = 0 /\ opened' = opened
      BY <1>0, <2>4, <3>1, <3>2
    <3>3. CASE Len(stack') = 1 /\ ~Limit(Len(files)) /\ opened' = opened + 1
      BY <1>0, <2>4, <3>1, <3>3
    <3> QED
      BY <2>3, <3>2, <3>3
<1>2. CASE ReadDir
  <2>1. /\ pc = "listing" /\ stack # <<>> /\ UNCHANGED <<tree, pc, files, depth>>
    BY <1>2 DEF ReadDir
  <2>2. PICK d \in Top.left \intersect Dir : Enter(Read(d), d)
    BY <1>2 DEF ReadDir
  <2>3. /\ Stack(tree, Read(d)) /\ Len(Read(d)) = Len(stack)
        /\ d \in tree[Read(d)[Len(Read(d))].dir]
    BY <2>1, <2>2, Reading DEF Walk, Calls, Openable
  <2>4. /\ Stack(tree, stack')
        /\ \/ Len(stack') = Len(stack) /\ opened' = opened
           \/ Len(stack') = Len(stack) + 1 /\ opened' = opened + 1 /\ ~Limit(Len(files))
    BY <2>2, <2>3, EnterKeeps DEF Walk
  <2>5. Walk'
    BY <1>0, <2>1, <2>4 DEF Walk
  <2> QED
    BY <1>0, <2>1, <2>4, <2>5
<1>3. CASE ReadFile
  <2>1. /\ pc = "listing" /\ stack # <<>> /\ UNCHANGED <<tree, pc, opened>>
    BY <1>3 DEF ReadFile
  <2>2. PICK f \in Top.left \ Dir :
            /\ files' = Append(files, f)
            /\ stack' = IF Limit(Len(files')) THEN Front(stack) ELSE Read(f)
            /\ depth' = IF Len(files') = MaxFileNum THEN Len(stack) ELSE depth
    BY <1>3 DEF ReadFile
  <2>3. files' \in Seq(File) /\ Len(files') = Len(files) + 1
    <3>1. Top \in Calls(tree) /\ tree \in Trees
      BY <2>1, Reading DEF Walk
    <3>2. f \in tree[Top.dir] /\ Top.dir \in Dir /\ f \notin Dir
      BY <2>2, <3>1 DEF Calls, Openable
    <3>3. f \in File
      BY <3>1, <3>2, FileIs
    <3> QED
      BY <2>2, <3>3, AppendProperties DEF Walk
  <2>4. CASE Limit(Len(files'))
    <3>1. Stack(tree, stack') /\ Len(stack') = Len(stack) - 1
      BY <2>1, <2>2, <2>4, Popped DEF Walk
    <3>2. Walk'
      BY <1>0, <2>1, <2>2, <2>3, <3>1 DEF Walk
    <3> QED
      BY <1>0, <2>1, <2>2, <2>3, <2>4, <3>1, <3>2
  <2>5. CASE ~Limit(Len(files'))
    <3>1. Stack(tree, stack') /\ Len(stack') = Len(stack)
      BY <2>1, <2>2, <2>5, Reading DEF Walk
    <3>2. Walk'
      BY <1>0, <2>1, <2>2, <2>3, <3>1 DEF Walk
    <3> QED
      BY <1>0, <2>1, <2>2, <2>3, <2>5, <3>1, <3>2
  <2> QED
    BY <2>4, <2>5
<1>4. CASE EndOfDir
  <2>1. /\ pc = "listing" /\ stack # <<>> /\ stack' = Front(stack) /\ opened' = opened - 1
        /\ UNCHANGED <<tree, pc, files, depth>>
    BY <1>4 DEF EndOfDir
  <2>2. Stack(tree, stack') /\ Len(stack') = Len(stack) - 1
    BY <2>1, Popped DEF Walk
  <2>3. Walk'
    BY <1>0, <2>1, <2>2 DEF Walk
  <2> QED
    BY <1>0, <2>1, <2>2, <2>3
<1>5. CASE EndListing
  <2>1. stack = <<>> /\ files' = Sorted /\ UNCHANGED <<tree, stack, opened, depth>>
    BY <1>5 DEF EndListing
  <2>2. files' \in Seq(File) /\ Len(files') = Len(files)
    BY <2>1, SortedIs DEF Walk
  <2>3. Walk'
    BY <2>1, <2>2 DEF Walk
  <2> QED
    BY <2>1, <2>2, <2>3
<1>6. CASE UNCHANGED listing /\ (pc' = pc \/ (pc' # "listing" /\ pc # "listing"))
  BY <1>6 DEF listing, Walk
<1>7. CASE LoadFile \/ EndInit \/ Correct
  BY <1>6, <1>7 DEF LoadFile, EndInit, Correct
<1>8. CASE UNCHANGED svars
  BY <1>6, <1>8 DEF svars
<1>9. ASSUME NEW d \in Dao, NEW db \in [Table -> RowCount \union {Missing}],
             NEW connected \in BOOLEAN, DaoInit(d, db, connected)
      PROVE  LInv'
  <2>1. UNCHANGED svars
    BY <1>9 DEF DaoInit
  <2> QED
    BY <1>8, <2>1
<1>10. CASE InitData \/ UNCHANGED vars
  <2>1. UNCHANGED svars
    BY <1>10 DEF InitData, vars
  <2> QED
    BY <1>8, <2>1
<1> QED
  BY <1>1, <1>2, <1>3, <1>4, <1>5, <1>7, <1>9, <1>10 DEF Next, SNext, Listing

\* The list exceeds the limit by one file at most for each directory above the one the
\* limit was reached in, for every tree without cycles and in every order of readdir.
THEOREM ListingCorrect == Spec => []ListingBounded
<1>1. LInv => ListingBounded
  BY DEF LInv
<1> QED
  BY <1>1, InitListed, StepListed, PTL DEF Spec

\* Below the limit a listing leaves no directory open, also one that a failed init
\* is repeated with.
THEOREM ClosedCorrect == Spec => []DirectoriesClosed
<1>1. LInv => DirectoriesClosed
  BY DEF LInv
<1> QED
  BY <1>1, InitListed, StepListed, PTL DEF Spec

-----------------------------------------------------------------------------
(* What a first listing finds                                              *)

\* The entries of the directories of D, and those that the calls in s have not read.
Found(D) == UNION {tree[d] : d \in D}
Left(s) == UNION {s[i].left : i \in DOMAIN s}

\* D are the directories that were opened.  Each but Root is an entry of another;
\* an entry that has been read is in D or in the list, unless it cannot be opened,
\* and one that has not been read is in neither.
Walked(D) ==
    /\ {Root} \ Unreadable \subseteq D /\ D \subseteq Visited
    /\ \A i \in DOMAIN stack : stack[i].dir \in D
    /\ D \ {Root} \subseteq Found(D)
    /\ (Found(D) \intersect Dir) \ Unreadable \subseteq D \union Left(stack)
    /\ D \intersect Left(stack) = {}
    /\ ToSet(files) = (Found(D) \ Dir) \ Left(stack)
    /\ \A i, j \in DOMAIN files : files[i] = files[j] => i = j

\* The files of the directories that a listing comes to, in the order of paths.
InOrder ==
    /\ ToSet(files) = Found(Visited) \ Dir
    /\ \A i, j \in DOMAIN files : i < j => files[i] < files[j]

\* The first call of init, as long as it is below the limit.
FirstInv ==
    /\ attempts \in Nat
    /\ pc = "idle" => attempts = 0
    /\ attempts = 0 => pc = "idle" /\ files = <<>>
    /\ (attempts = 1 /\ ~Limit(Len(files)) /\ pc = "listing") =>
            \E D \in SUBSET Dir : Walked(D)
    /\ (attempts = 1 /\ ~Limit(Len(files)) /\ pc \notin {"idle", "listing"}) => InOrder

\* The least set of directories that has Root and what can be opened in its own.
LEMMA VisitedIs ==
    /\ Visited \subseteq Dir
    /\ {Root} \ Unreadable \subseteq Visited
    /\ \A e \in Visited : (tree[e] \intersect Dir) \ Unreadable \subseteq Visited
    /\ \A D \in SUBSET Dir :
        (/\ {Root} \ Unreadable \subseteq D
         /\ \A e \in D : (tree[e] \intersect Dir) \ Unreadable \subseteq D) => Visited \subseteq D
<1> DEFINE Closed(D) == /\ {Root} \ Unreadable \subseteq D
                        /\ \A e \in D : (tree[e] \intersect Dir) \ Unreadable \subseteq D
<1>1. Visited = {d \in Dir : \A D \in SUBSET Dir : Closed(D) => d \in D}
  BY DEF Visited
<1>2. {Root} \ Unreadable \subseteq Visited
  BY <1>1, TreeAssumption
<1>3. ASSUME NEW e \in Visited, NEW d \in (tree[e] \intersect Dir) \ Unreadable
      PROVE  d \in Visited
  <2>1. ASSUME NEW D \in SUBSET Dir, Closed(D) PROVE d \in D
    BY <1>1, <2>1
  <2> HIDE DEF Closed
  <2> QED
    BY <1>1, <2>1
<1> QED
  BY <1>1, <1>2, <1>3

\* What the calls have not read, when one is added, returns or reads an entry.
LEMMA LeftPushed ==
    ASSUME NEW s, NEW S, s \in Seq(S), NEW c
    PROVE  Left(Append(s, c)) = Left(s) \union c.left
<1> DEFINE new == Append(s, c)
           n == Len(s)
           T == S \union {c}
<1>1. s \in Seq(T) /\ c \in T
  BY SeqMonotonic
<1> HIDE DEF T
<1>2. n \in Nat /\ DOMAIN s = 1 .. n /\ DOMAIN new = 1 .. n + 1
      /\ (\A i \in 1 .. n : new[i] = s[i]) /\ new[n + 1] = c
  BY <1>1, AppendProperties, LenProperties
<1> HIDE DEF new
<1>3. 1 .. n + 1 = (1 .. n) \union {n + 1}
  BY <1>2
<1>4. \A x : x \in Left(new) <=> \E i \in 1 .. n + 1 : x \in new[i].left
  BY <1>2 DEF Left
<1>5. \A x : x \in Left(s) <=> \E i \in 1 .. n : x \in s[i].left
  BY <1>2 DEF Left
<1> QED
  BY <1>2, <1>3, <1>4, <1>5 DEF new

LEMMA LeftPopped ==
    ASSUME NEW t \in Trees, NEW s, Stack(t, s), s # <<>>, s[Len(s)].left = {}
    PROVE  Left(Front(s)) = Left(s)
<1> DEFINE new == Front(s)
           n == Len(s)
<1>1. n \in Nat \ {0} /\ DOMAIN s = 1 .. n
  BY EmptySeq, LenProperties DEF Stack
<1>2. DOMAIN new = 1 .. n - 1 /\ \A i \in 1 .. n - 1 : new[i] = s[i]
  BY Popped, LenProperties DEF Stack
<1> HIDE DEF new
<1>3. 1 .. n = (1 .. n - 1) \union {n}
  BY <1>1
<1>4. \A x : x \in Left(new) <=> \E i \in 1 .. n - 1 : x \in new[i].left
  BY <1>2 DEF Left
<1>5. \A x : x \in Left(s) <=> \E i \in 1 .. n : x \in s[i].left
  BY <1>1 DEF Left
<1> QED
  BY <1>2, <1>3, <1>4, <1>5 DEF new

\* An entry is in one directory, and a directory has one call.
LEMMA LeftRead ==
    ASSUME NEW t \in Trees, Stack(t, stack), stack # <<>>, NEW e \in Top.left
    PROVE  /\ Left(Read(e)) = Left(stack) \ {e} /\ e \in Left(stack)
           /\ DOMAIN Read(e) = DOMAIN stack
           /\ \A i \in DOMAIN stack : Read(e)[i].dir = stack[i].dir
           /\ e \in t[Top.dir] /\ Top.dir \in Dir
           /\ \E i \in DOMAIN stack : stack[i].dir = Top.dir
<1> DEFINE n == Len(stack)
           new == Read(e)
<1>1. n \in Nat \ {0} /\ DOMAIN stack = 1 .. n /\ n \in 1 .. n
  BY EmptySeq, LenProperties DEF Stack
<1>2. \A i \in 1 .. n : stack[i].dir \in Dir /\ stack[i].left \subseteq t[stack[i].dir]
  BY <1>1, ElementOfSeq DEF Stack, Calls, Openable
<1>3. Top = stack[n] /\ Top \in Calls(t)
  BY Reading DEF Top
<1>4. /\ DOMAIN new = 1 .. n
      /\ \A i \in 1 .. n : new[i] = IF i = n THEN [Top EXCEPT !.left = @ \ {e}] ELSE stack[i]
  BY <1>1, Reading, LenProperties DEF Stack
<1> HIDE DEF new
<1>5. \A i \in 1 .. n : /\ new[i].dir = stack[i].dir
                        /\ new[i].left = IF i = n THEN stack[n].left \ {e} ELSE stack[i].left
  BY <1>3, <1>4 DEF Calls, Openable
<1>6. ASSUME NEW i \in 1 .. n, i # n PROVE e \notin stack[i].left
  <2>1. Depth(t)[stack[i].dir] < Depth(t)[stack[n].dir]
    <3>1. i < n
      <4> HIDE DEF n
      <4> QED
        BY <1>1, <1>6
    <3>2. Descending(t, stack)
      BY DEF Stack
    <3> QED
      BY <1>1, <3>1, <3>2 DEF Descending
  <2>2. stack[i].dir # stack[n].dir
    <3>1. Depth(t)[stack[n].dir] \in Int
      BY <1>1, <1>2, DepthIs, Directories
    <3> QED
      BY <2>1, <3>1
  <2>3. e \in t[stack[n].dir]
    BY <1>1, <1>2, <1>3
  <2> QED
    BY <1>1, <1>2, <2>2, <2>3, PathAssumption
<1>7. \A x : x \in Left(new) <=> \E i \in 1 .. n : x \in new[i].left
  BY <1>4 DEF Left
<1>8. \A x : x \in Left(stack) <=> \E i \in 1 .. n : x \in stack[i].left
  BY <1>1 DEF Left
<1>9. Left(new) = Left(stack) \ {e}
  BY <1>1, <1>5, <1>6, <1>7, <1>8
<1>10. e \in Left(stack)
  BY <1>1, <1>3, <1>8
<1> QED
  BY <1>1, <1>2, <1>3, <1>4, <1>5, <1>9, <1>10 DEF new

\* The first call of ls_dir, or none.
LEMMA FirstBegun ==
    ASSUME tree \in Trees, BeginInit, files = <<>>, stack = <<>>, ~Limit(Len(files))
    PROVE  \E D \in SUBSET Dir : Walked(D)'
<1>1. /\ tree' = tree /\ files' = <<>> /\ Enter(<<>>, Root)
  BY DEF BeginInit, BeginListing
<1>2. Visited' = Visited
  BY <1>1 DEF Visited
<1>3. DOMAIN files' = {} /\ ToSet(files') = {}
  BY <1>1 DEF ToSet
<1>4. CASE Root \in Unreadable
  <2>1. stack' = <<>>
    BY <1>1, <1>4 DEF Enter
  <2>2. Left(stack') = {} /\ DOMAIN stack' = {}
    BY <2>1 DEF Left
  <2>3. Found({})' = {}
    BY DEF Found
  <2>4. Walked({})'
    BY <1>2, <1>3, <1>4, <2>2, <2>3 DEF Walked
  <2> QED
    BY <2>4
<1>5. CASE Root \notin Unreadable
  <2> DEFINE c == [dir |-> Root, left |-> tree[Root]]
  <2>1. stack' = Append(<<>>, c)
    BY <1>1, <1>5 DEF Enter
  <2>2. Left(stack') = tree[Root]
    <3>1. <<>> \in Seq({}) /\ Left(<<>>) = {} /\ c.left = tree[Root]
      BY EmptySeq DEF Left
    <3> HIDE DEF c
    <3>2. Left(Append(<<>>, c)) = Left(<<>>) \union c.left
      BY <3>1, LeftPushed
    <3> QED
      BY <2>1, <3>1, <3>2
  <2>3. \A i \in DOMAIN stack' : stack'[i].dir = Root
    BY <2>1
  <2>4. Found({Root})' = tree[Root]
    BY <1>1 DEF Found
  <2>5. Root \notin tree[Root] /\ Root \in Dir /\ {Root} \subseteq Visited
    BY <1>5, VisitedIs, TreeAssumption, PathAssumption
  <2>6. Walked({Root})'
    BY <1>2, <1>3, <1>5, <2>2, <2>3, <2>4, <2>5 DEF Walked
  <2> QED
    BY <2>5, <2>6
<1> QED
  BY <1>4, <1>5

\* A directory is entered, or cannot be opened.
LEMMA FirstReadDir ==
    ASSUME Walk, ReadDir, ~Limit(Len(files)), NEW D \in SUBSET Dir, Walked(D)
    PROVE  \E E \in SUBSET Dir : Walked(E)'
<1>1. /\ stack # <<>> /\ tree' = tree /\ files' = files
      /\ tree \in Trees /\ Stack(tree, stack)
  BY DEF ReadDir, Walk
<1>2. PICK d \in Top.left \intersect Dir : Enter(Read(d), d)
  BY DEF ReadDir
<1>3. Visited' = Visited
  BY <1>1 DEF Visited
<1> DEFINE L == Left(stack)
           F == Found(D)
<1>4. /\ Left(Read(d)) = L \ {d} /\ d \in L
      /\ DOMAIN Read(d) = DOMAIN stack
      /\ \A i \in DOMAIN stack : Read(d)[i].dir = stack[i].dir
      /\ d \in tree[Top.dir] /\ Top.dir \in Dir
      /\ \E i \in DOMAIN stack : stack[i].dir = Top.dir
  BY <1>1, <1>2, LeftRead
<1>5. /\ {Root} \ Unreadable \subseteq D /\ D \subseteq Visited
      /\ \A i \in DOMAIN stack : stack[i].dir \in D
      /\ D \ {Root} \subseteq F
      /\ (F \intersect Dir) \ Unreadable \subseteq D \union L
      /\ D \intersect L = {}
      /\ ToSet(files) = (F \ Dir) \ L
      /\ \A i, j \in DOMAIN files : files[i] = files[j] => i = j
  BY DEF Walked
<1>6. Top.dir \in D /\ d \in F /\ d \notin D
  BY <1>4, <1>5 DEF Found
<1>7. CASE d \in Unreadable
  <2>1. stack' = Read(d)
    BY <1>2, <1>7 DEF Enter
  <2>2. Found(D)' = F
    BY <1>1 DEF Found
  <2> HIDE DEF L, F
  <2>3. Left(stack') = L \ {d}
    BY <1>4, <2>1
  <2>4. Walked(D)'
    BY <1>1, <1>2, <1>3, <1>4, <1>5, <1>7, <2>1, <2>2, <2>3 DEF Walked
  <2> QED
    BY <2>4
<1>8. CASE d \notin Unreadable
  <2> DEFINE c == [dir |-> d, left |-> tree[d]]
             E == D \union {d}
  <2>1. stack' = Append(Read(d), c)
    BY <1>2, <1>8 DEF Enter
  <2>2. Found(E)' = F \union tree[d]
    BY <1>1 DEF Found
  <2>3. Read(d) \in Seq(Calls(tree)) /\ c.left = tree[d] /\ c.dir = d
    BY <1>1, Reading DEF Stack
  <2>4. Left(stack') = (L \ {d}) \union tree[d]
    BY <1>4, <2>1, <2>3, LeftPushed
  <2>5. \A i \in DOMAIN stack' : stack'[i].dir \in E
    <3>1. \A i \in DOMAIN Read(d) : Read(d)[i].dir \in D
      BY <1>4, <1>5
    <3>2. d \in Dir /\ Read(d) # <<>> /\ d \in tree[Read(d)[Len(Read(d))].dir]
          /\ Stack(tree, Read(d))
      BY <1>1, <1>2, <1>4, Reading
    <3>3. /\ Len(stack') = Len(Read(d)) + 1
          /\ stack' \in Seq(Calls(tree))
          /\ \A i \in 1 .. Len(Read(d)) : stack'[i] = Read(d)[i]
          /\ stack'[Len(Read(d)) + 1] = c
      BY <1>1, <1>8, <2>1, <3>2, Pushed DEF Stack, Openable
    <3>4. DOMAIN stack' = 1 .. Len(Read(d)) + 1 /\ DOMAIN Read(d) = 1 .. Len(Read(d))
          /\ Len(Read(d)) \in Nat
      BY <2>3, <3>3, LenProperties
    <3> QED
      BY <2>3, <3>1, <3>3, <3>4
  <2>6. d \in Visited
    BY <1>2, <1>4, <1>5, <1>6, <1>8, VisitedIs
  <2>7. tree[d] \intersect F = {} /\ Root \notin tree[d] /\ Root \notin F
    <3>1. \A e \in D : e \in Dir /\ e # d
      BY <1>6
    <3>2. \A e \in D : tree[d] \intersect tree[e] = {}
      BY <1>1, <1>2, <3>1, PathAssumption
    <3>3. Root \notin tree[d] /\ \A e \in D : Root \notin tree[e]
      BY <1>1, <1>2, PathAssumption
    <3> QED
      BY <3>2, <3>3 DEF Found
  <2>8. d # Root /\ d \notin tree[d] /\ d \in Dir
    BY <1>2, <1>6, <2>7
  <2> HIDE DEF L, F
  <2>9. E \intersect Left(stack') = {}
    BY <1>5, <1>6, <2>4, <2>7, <2>8
  <2>10. (Found(E)' \intersect Dir) \ Unreadable \subseteq E \union Left(stack')
    BY <1>5, <2>2, <2>4
  <2>11. ToSet(files') = (Found(E)' \ Dir) \ Left(stack')
    BY <1>1, <1>5, <2>2, <2>4, <2>7, <2>8
  <2>12. E \ {Root} \subseteq Found(E)'
    BY <1>5, <1>6, <2>2
  <2> HIDE DEF E
  <2>13. {Root} \ Unreadable \subseteq E /\ E \subseteq Visited'
    BY <1>3, <1>5, <2>6 DEF E
  <2>14. Walked(E)'
    BY <1>1, <1>5, <2>5, <2>9, <2>10, <2>11, <2>12, <2>13 DEF Walked
  <2>15. E \in SUBSET Dir
    BY <2>8 DEF E
  <2> QED
    BY <2>14, <2>15
<1> QED
  BY <1>7, <1>8

\* A file is read, and the limit not reached by it.
LEMMA FirstReadFile ==
    ASSUME Walk, ReadFile, ~Limit(Len(files')), NEW D \in SUBSET Dir, Walked(D)
    PROVE  Walked(D)'
<1>1. /\ stack # <<>> /\ tree' = tree
      /\ tree \in Trees /\ Stack(tree, stack) /\ files \in Seq(File)
  BY DEF ReadFile, Walk
<1>2. PICK f \in Top.left \ Dir : files' = Append(files, f) /\ stack' = Read(f)
  BY DEF ReadFile
<1>3. Visited' = Visited /\ Found(D)' = Found(D)
  BY <1>1 DEF Visited, Found
<1>4. /\ Left(stack') = Left(stack) \ {f} /\ f \in Left(stack)
      /\ DOMAIN stack' = DOMAIN stack
      /\ \A i \in DOMAIN stack : stack'[i].dir = stack[i].dir
      /\ f \in tree[Top.dir] /\ Top.dir \in Dir
      /\ \E i \in DOMAIN stack : stack[i].dir = Top.dir
  BY <1>1, <1>2, LeftRead
<1>5. f \in Found(D) /\ f \notin ToSet(files)
  BY <1>4 DEF Walked, Found
<1> DEFINE n == Len(files)
           T == File \union {f}
<1>6. files \in Seq(T) /\ f \in T
  BY <1>1, SeqMonotonic
<1> HIDE DEF T
<1>7. n \in Nat /\ DOMAIN files = 1 .. n /\ DOMAIN files' = 1 .. n + 1
      /\ (\A i \in 1 .. n : files'[i] = files[i]) /\ files'[n + 1] = f
  BY <1>2, <1>6, AppendProperties, LenProperties
<1> HIDE DEF n
<1>8. 1 .. n + 1 = (1 .. n) \union {n + 1}
  BY <1>7
<1>9. ToSet(files') = ToSet(files) \union {f}
  BY <1>7, <1>8 DEF ToSet
<1>10. \A i, j \in DOMAIN files' : files'[i] = files'[j] => i = j
  <2>1. \A i \in 1 .. n : files[i] # f
    BY <1>5, <1>7 DEF ToSet
  <2>2. \A i, j \in 1 .. n : files[i] = files[j] => i = j
    BY <1>7 DEF Walked
  <2> QED
    BY <1>7, <1>8, <2>1, <2>2
<1> QED
  BY <1>2, <1>3, <1>4, <1>5, <1>9, <1>10 DEF Walked

\* With every entry read the directories opened are those that a listing comes to.
LEMMA FirstEnds ==
    ASSUME Walk, EndListing, NEW D \in SUBSET Dir, Walked(D)
    PROVE  InOrder'
<1>1. /\ stack = <<>> /\ files' = Sorted /\ tree' = tree /\ files \in Seq(File)
  BY DEF EndListing, Walk
<1>2. Left(stack) = {}
  BY <1>1 DEF Left
<1>3. D = Visited
  <2>1. \A e \in D : tree[e] \subseteq Found(D)
    BY DEF Found
  <2>2. \A e \in D : (tree[e] \intersect Dir) \ Unreadable \subseteq D
    BY <1>2, <2>1 DEF Walked
  <2> QED
    BY <2>2, VisitedIs DEF Walked
<1>4. ToSet(files) = Found(Visited) \ Dir /\ \A i, j \in DOMAIN files : files[i] = files[j] => i = j
  BY <1>2, <1>3 DEF Walked
<1>5. Sorted \in Seq(File) /\ Len(Sorted) = Len(files) /\ ToSet(Sorted) = ToSet(files)
      /\ \A i, j \in DOMAIN files : i < j => Sorted[i] < Sorted[j]
  BY <1>1, <1>4, SortedIs
<1>6. DOMAIN Sorted = DOMAIN files
  BY <1>1, <1>5, LenProperties
<1>7. Found(Visited)' = Found(Visited)
  BY <1>1 DEF Found, Visited
<1> QED
  BY <1>1, <1>4, <1>5, <1>6, <1>7 DEF InOrder

\* Nothing is listed yet.
LEMMA InitFirst == Init => FirstInv
BY EmptySeq DEF Init, SInit, ListInit, FirstInv

\* A step that is not of the listing leaves the list as it is.
LEMMA FirstKept ==
    ASSUME FirstInv, UNCHANGED <<attempts, files, tree>>,
           pc \notin {"idle", "listing"} \/ pc' = pc,
           pc \notin {"idle", "listing"} => pc' \notin {"idle", "listing"},
           pc = "listing" => UNCHANGED stack
    PROVE  FirstInv'
<1>1. Visited' = Visited
  BY DEF Visited
<1>2. InOrder' <=> InOrder
  BY <1>1 DEF InOrder, Found
<1>3. pc = "listing" => \A D : Walked(D)' <=> Walked(D)
  BY <1>1 DEF Walked, Found
<1> QED
  BY <1>2, <1>3 DEF FirstInv

\* The first list has the files of the directories that a listing comes to, whatever
\* the order readdir gives the entries in.
LEMMA StepFirst == LInv /\ FirstInv /\ [Next]_vars => FirstInv'
<1> SUFFICES ASSUME LInv, FirstInv, [Next]_vars PROVE FirstInv'
  OBVIOUS
<1>0. Walk /\ tree \in Trees /\ MaxFileNum \in Nat /\ Len(files) \in Nat
  BY Lengths DEF LInv, Walk
<1>1. CASE BeginInit
  <2>1. /\ attempts' = attempts + 1 /\ files' = files /\ pc' = "listing"
    BY <1>1 DEF BeginInit, BeginListing
  <2>2. ASSUME attempts' = 1, ~Limit(Len(files'))
        PROVE  \E D \in SUBSET Dir : Walked(D)'
    <3>1. files = <<>> /\ pc = "idle"
      BY <2>1, <2>2 DEF FirstInv
    <3>2. stack = <<>>
      BY <1>0, <3>1 DEF Walk
    <3> QED
      BY <1>0, <1>1, <2>1, <2>2, <3>1, <3>2, FirstBegun
  <2> QED
    BY <2>1, <2>2 DEF FirstInv
<1>2. CASE ReadDir /\ UNCHANGED schemas
  <2>1. /\ pc = "listing" /\ UNCHANGED <<pc, files, attempts>>
    BY <1>2 DEF ReadDir, schemas
  <2>2. ASSUME attempts' = 1, ~Limit(Len(files'))
        PROVE  \E D \in SUBSET Dir : Walked(D)'
    <3>1. PICK D \in SUBSET Dir : Walked(D)
      BY <2>1, <2>2 DEF FirstInv
    <3> QED
      BY <1>0, <1>2, <2>1, <2>2, <3>1, FirstReadDir
  <2> QED
    BY <2>1, <2>2 DEF FirstInv
<1>3. CASE ReadFile /\ UNCHANGED schemas
  <2>1. /\ pc = "listing" /\ UNCHANGED <<pc, attempts>>
    BY <1>3 DEF ReadFile, schemas
  <2>2. ASSUME attempts' = 1, ~Limit(Len(files'))
        PROVE  \E D \in SUBSET Dir : Walked(D)'
    <3>1. PICK f : files' = Append(files, f)
      BY <1>3 DEF ReadFile
    <3>2. files \in Seq(File \union {f}) /\ f \in File \union {f}
      BY <1>0, SeqMonotonic DEF Walk
    <3>3. Len(files') = Len(files) + 1
      BY <3>1, <3>2, AppendProperties
    <3>4. ~Limit(Len(files))
      BY <1>0, <2>2, <3>3 DEF Limit
    <3>5. PICK D \in SUBSET Dir : Walked(D)
      BY <2>1, <2>2, <3>4 DEF FirstInv
    <3> QED
      BY <1>0, <1>3, <2>2, <3>5, FirstReadFile
  <2> QED
    BY <2>1, <2>2 DEF FirstInv
<1>4. CASE EndOfDir /\ UNCHANGED schemas
  <2>1. /\ pc = "listing" /\ UNCHANGED <<pc, files, attempts, tree>>
        /\ stack # <<>> /\ Top.left = {} /\ stack' = Front(stack) /\ Stack(tree, stack)
    BY <1>0, <1>4 DEF EndOfDir, schemas, Walk
  <2>2. Left(stack') = Left(stack)
    BY <1>0, <2>1, LeftPopped DEF Top
  <2>3. DOMAIN stack' \subseteq DOMAIN stack /\ \A i \in DOMAIN stack' : stack'[i] = stack[i]
    <3>1. /\ stack' \in Seq(Calls(tree)) /\ Len(stack') = Len(stack) - 1
          /\ \A i \in 1 .. Len(stack) - 1 : stack'[i] = stack[i]
      BY <1>0, <2>1, Popped DEF Stack
    <3>2. DOMAIN stack' = 1 .. Len(stack) - 1 /\ DOMAIN stack = 1 .. Len(stack)
          /\ Len(stack) \in Nat
      BY <2>1, <3>1, LenProperties DEF Stack
    <3> QED
      BY <3>1, <3>2
  <2>4. \A D : Walked(D) => Walked(D)'
    <3>1. Visited' = Visited /\ \A D : Found(D)' = Found(D)
      BY <2>1 DEF Visited, Found
    <3> QED
      BY <2>1, <2>2, <2>3, <3>1 DEF Walked
  <2> QED
    BY <2>1, <2>4 DEF FirstInv
<1>5. CASE EndListing /\ UNCHANGED schemas
  <2>1. /\ pc = "listing" /\ pc' = "listed" /\ UNCHANGED attempts
        /\ files' = Sorted /\ Len(Sorted) = Len(files)
    BY <1>0, <1>5, SortedIs DEF EndListing, schemas, Walk
  <2>2. ASSUME attempts' = 1, ~Limit(Len(files')) PROVE InOrder'
    <3>1. PICK D \in SUBSET Dir : Walked(D)
      BY <2>1, <2>2 DEF FirstInv
    <3> QED
      BY <1>0, <1>5, <3>1, FirstEnds
  <2> QED
    BY <2>1, <2>2 DEF FirstInv
<1>6. CASE LoadFile \/ EndInit \/ Correct
  <2>1. /\ UNCHANGED <<attempts, files, tree>> /\ pc \in {"listed", "failed"}
        /\ pc' \notin {"idle", "listing"}
    BY <1>6 DEF LoadFile, EndInit, Correct, listing, schemas
  <2> QED
    BY <2>1, FirstKept
<1>7. CASE UNCHANGED svars
  <2>1. UNCHANGED <<pc, attempts, files, tree, stack>>
    BY <1>7 DEF svars, schemas, listing
  <2> QED
    BY <2>1, FirstKept
<1>8. ASSUME NEW d \in Dao, NEW db \in [Table -> RowCount \union {Missing}],
             NEW connected \in BOOLEAN, DaoInit(d, db, connected)
      PROVE  FirstInv'
  BY <1>7, <1>8 DEF DaoInit
<1>9. CASE InitData \/ UNCHANGED vars
  BY <1>7, <1>9 DEF InitData, vars
<1> QED
  BY <1>1, <1>2, <1>3, <1>4, <1>5, <1>6, <1>8, <1>9 DEF Next, SNext, Listing

-----------------------------------------------------------------------------
(* What is loaded                                                          *)

\* The places of the table files among the first n of the list.
Tables(n) == {j \in 1 .. n : files[j] \in TableFile}

\* The table files among the first n of the list have been read, each into the
\* entry of the array that the number of those before it names.
Loaded(n) ==
    /\ count = Cardinality(Tables(n))
    /\ \A j \in Tables(n) : \A i \in Table :
            i = Cardinality(Tables(j - 1)) => schema[i] = conf[files[j]]
    /\ \A i \in Table : i < count => schema[i] \in Schema

\* What init has of the files: between a listing and the end of a call that has met
\* no bad file, what those before the cursor hold.
LoadInv ==
    /\ pc \in {"idle", "listing", "listed", "failed", "ready"}
    /\ conf \in Confs /\ ret \in BOOLEAN /\ count \in Nat
    /\ DOMAIN schema = Table
    /\ index \in 0 .. Len(files)
    /\ pc # "listed" => index = 0
    /\ pc = "listing" => count = 0 /\ ~ret
    /\ (pc = "listed" /\ ~ret) => Loaded(index)
    /\ pc = "ready" => Loaded(Len(files)) /\ count = TableNum /\ refs = Refs

\* The table files of a list are finitely many.
LEMMA TablesFinite ==
    ASSUME NEW n \in Nat
    PROVE  IsFiniteSet(Tables(n)) /\ Cardinality(Tables(n)) \in Nat
<1>1. IsFiniteSet(1 .. n)
  BY FS_Interval
<1>2. Tables(n) \in SUBSET (1 .. n)
  BY DEF Tables
<1>3. IsFiniteSet(Tables(n))
  BY <1>1, <1>2, FS_Subset
<1> QED
  BY <1>3, FS_CardinalityType

\* get_next goes to the next table file, if there is one.
LEMMA NextFileIs ==
    ASSUME files \in Seq(File), index \in 0 .. Len(files)
    PROVE  \/ NextFile = 0 /\ \A j \in index + 1 .. Len(files) : files[j] \notin TableFile
           \/ /\ NextFile \in index + 1 .. Len(files) /\ files[NextFile] \in TableFile
              /\ \A j \in index + 1 .. NextFile - 1 : files[j] \notin TableFile
<1> DEFINE I == {i \in index + 1 .. Len(files) : files[i] \in TableFile}
<1>1. NextFile = IF I # {} THEN Min(I) ELSE 0
  BY DEF NextFile, SelectInSubSeq
<1>2. Len(files) \in Nat /\ I \subseteq Nat
  BY LenProperties
<1>3. CASE I = {}
  BY <1>1, <1>3
<1>4. CASE I # {}
  <2> HIDE DEF I
  <2>1. \E x \in I : \A y \in I : x <= y
    BY <1>2, <1>4, LeastExists
  <2>2. Min(I) \in I /\ \A y \in I : Min(I) <= y
    BY <2>1 DEF Min
  <2>3. NextFile \in I /\ \A y \in I : NextFile <= y
    BY <1>1, <1>4, <2>2
  <2> USE DEF I
  <2>4. ASSUME NEW j \in index + 1 .. NextFile - 1 PROVE files[j] \notin TableFile
    <3>1. j \in index + 1 .. Len(files) /\ ~(NextFile <= j)
      BY <1>2, <2>3
    <3> QED
      BY <2>3, <3>1
  <2> QED
    BY <2>3, <2>4
<1> QED
  BY <1>3, <1>4

\* The cursor passes a table file, or there is none left to pass.
LEMMA TablesNext ==
    ASSUME files \in Seq(File), index \in 0 .. Len(files)
    PROVE  /\ NextFile = 0 => Tables(index) = Tables(Len(files))
           /\ NextFile # 0 =>
                /\ NextFile \in index + 1 .. Len(files) /\ files[NextFile] \in TableFile
                /\ Tables(NextFile) = Tables(index) \union {NextFile}
                /\ Tables(NextFile - 1) = Tables(index)
                /\ NextFile \notin Tables(index)
                /\ Cardinality(Tables(NextFile)) = Cardinality(Tables(index)) + 1
<1>1. Len(files) \in Nat /\ index \in Nat
  BY LenProperties
<1>2. CASE NextFile = 0 /\ \A j \in index + 1 .. Len(files) : files[j] \notin TableFile
  <2>1. 1 .. Len(files) = (1 .. index) \union (index + 1 .. Len(files))
    BY <1>1
  <2> QED
    BY <1>2, <2>1 DEF Tables
<1>3. CASE /\ NextFile \in index + 1 .. Len(files) /\ files[NextFile] \in TableFile
           /\ \A j \in index + 1 .. NextFile - 1 : files[j] \notin TableFile
  <2>1. 1 .. NextFile - 1 = (1 .. index) \union (index + 1 .. NextFile - 1)
        /\ 1 .. NextFile = (1 .. NextFile - 1) \union {NextFile}
        /\ NextFile \notin 1 .. index
    BY <1>1, <1>3
  <2>2. Tables(NextFile - 1) = Tables(index)
    BY <1>3, <2>1 DEF Tables
  <2>3. Tables(NextFile) = Tables(index) \union {NextFile} /\ NextFile \notin Tables(index)
    BY <1>3, <2>1, <2>2 DEF Tables
  <2>4. Cardinality(Tables(NextFile)) = Cardinality(Tables(index)) + 1
    BY <1>1, <2>3, TablesFinite, FS_AddElement
  <2> QED
    BY <1>1, <1>3, <2>2, <2>3, <2>4
<1> QED
  BY <1>2, <1>3, NextFileIs

\* Nothing is loaded yet.
LEMMA InitLoaded == Init => LoadInv
<1> SUFFICES ASSUME Init PROVE LoadInv
  OBVIOUS
<1>1. /\ pc = "idle" /\ conf \in Confs /\ ret = FALSE /\ count = 0 /\ index = 0
      /\ schema = [i \in Table |-> None] /\ files = <<>>
  BY DEF Init, SInit, ListInit
<1>2. Len(files) = 0 /\ DOMAIN schema = Table
  BY <1>1
<1>3. index \in 0 .. Len(files) /\ count \in Nat
  BY <1>1, <1>2
<1>4. ret \in BOOLEAN
  BY <1>1, Zenon
<1> QED
  BY <1>1, <1>2, <1>3, <1>4 DEF LoadInv

\* A file is read into the next entry of the array.
LEMMA LoadFileKeeps == Walk /\ LoadInv /\ LoadFile => LoadInv'
<1> SUFFICES ASSUME Walk, LoadInv, LoadFile PROVE LoadInv'
  OBVIOUS
<1> DEFINE n == NextFile
<1>1. /\ pc = "listed" /\ ~ret /\ n # 0 /\ index' = n
      /\ UNCHANGED <<pc, files, conf, refs>>
      /\ files \in Seq(File) /\ index \in 0 .. Len(files)
  BY DEF LoadFile, listing, Walk, LoadInv
<1>2. /\ n \in index + 1 .. Len(files) /\ files[n] \in TableFile
      /\ Tables(n) = Tables(index) \union {n}
      /\ Tables(n - 1) = Tables(index)
      /\ n \notin Tables(index)
      /\ Cardinality(Tables(n)) = Cardinality(Tables(index)) + 1
  BY <1>1, TablesNext
<1>3. Len(files) \in Nat /\ index \in Nat /\ n \in Nat /\ n \in 0 .. Len(files)
  BY <1>1, <1>2, LenProperties
<1>4. CASE conf[files[n]] = Bad
  BY <1>1, <1>3, <1>4 DEF LoadFile, LoadInv
<1>5. CASE conf[files[n]] # Bad
  <2>1. /\ count' = count + 1 /\ ret' = ret
        /\ schema' = [i \in Table |-> IF i = count THEN conf[files[n]] ELSE schema[i]]
    BY <1>5 DEF LoadFile
  <2>2. conf[files[n]] \in Schema
    BY <1>2, <1>5, SchemaAssumption DEF LoadInv
  <2> HIDE DEF n
  <2>3. Tables(index)' = Tables(n) /\ \A j : Tables(j - 1)' = Tables(j - 1)
    BY <1>1 DEF Tables
  <2>4. Loaded(index)
    BY <1>1 DEF LoadInv
  <2>5. count \in Nat /\ count = Cardinality(Tables(index)) /\ count' = Cardinality(Tables(n))
    BY <1>2, <2>1, <2>4 DEF Loaded, LoadInv
  <2>6. ASSUME NEW j \in Tables(n), NEW i \in Table, i = Cardinality(Tables(j - 1))
        PROVE  schema'[i] = conf[files[j]]
    <3>1. CASE j = n
      BY <1>2, <2>1, <2>5, <2>6, <3>1
    <3>2. CASE j # n
      <4>1. j \in Tables(index)
        BY <1>2, <2>6, <3>2
      <4>2. schema[i] = conf[files[j]]
        BY <2>4, <2>6, <4>1 DEF Loaded
      <4>3. j \in 1 .. index /\ j \notin Tables(j - 1) /\ Tables(j - 1) \subseteq Tables(index)
        BY <1>3, <4>1 DEF Tables
      <4>4. Cardinality(Tables(j - 1)) # Cardinality(Tables(index))
        <5>1. IsFiniteSet(Tables(index)) /\ Tables(j - 1) \in SUBSET Tables(index)
          BY <1>3, <4>3, TablesFinite
        <5> QED
          BY <4>1, <4>3, <5>1, FS_Subset
      <4> QED
        BY <2>1, <2>5, <2>6, <4>2, <4>4
    <3> QED
      BY <3>1, <3>2
  <2>7. ASSUME NEW i \in Table, i < count' PROVE schema'[i] \in Schema
    <3>1. i < count \/ i = count
      BY <2>1, <2>5, <2>7, SchemaAssumption DEF Table
    <3> QED
      BY <2>1, <2>2, <2>4, <3>1 DEF Loaded
  <2>8. Loaded(index)'
    BY <1>1, <2>3, <2>5, <2>6, <2>7 DEF Loaded
  <2>9. DOMAIN schema' = Table /\ count' \in Nat
    BY <2>1, <2>5
  <2>10. Len(files') = Len(files)
    BY <1>1
  <2> QED
    BY <1>1, <1>3, <2>1, <2>8, <2>9, <2>10 DEF LoadInv
<1> QED
  BY <1>4, <1>5

\* A call that ends well has passed all table files.
LEMMA EndInitKeeps == Walk /\ LoadInv /\ EndInit => LoadInv'
<1> SUFFICES ASSUME Walk, LoadInv, EndInit PROVE LoadInv'
  OBVIOUS
<1>1. /\ pc = "listed" /\ index' = 0
      /\ UNCHANGED <<files, conf, count, ret, schema>>
      /\ files \in Seq(File) /\ index \in 0 .. Len(files) /\ Len(files) \in Nat
  BY LenProperties DEF EndInit, listing, Walk, LoadInv
<1>2. CASE pc' = "failed"
  BY <1>1, <1>2 DEF LoadInv
<1>3. CASE pc' # "failed"
  <2>1. /\ ~ret /\ count = TableNum /\ NextFile = 0 /\ pc' = "ready" /\ refs' = Refs
    BY <1>3 DEF EndInit
  <2>2. Loaded(index) /\ Tables(index) = Tables(Len(files))
    BY <1>1, <2>1, TablesNext DEF LoadInv
  <2>3. Loaded(Len(files))
    BY <2>2 DEF Loaded
  <2>4. Loaded(Len(files))'
    BY <1>1, <2>3 DEF Loaded, Tables
  <2>5. Refs' = Refs
    BY <1>1 DEF Refs, ForeignKeys
  <2> QED
    BY <1>1, <2>1, <2>4, <2>5 DEF LoadInv
<1> QED
  BY <1>2, <1>3

\* Whatever the files hold and however often init was called.
LEMMA StepLoaded == LInv /\ LInv' /\ LoadInv /\ [Next]_vars => LoadInv'
<1> SUFFICES ASSUME LInv, LInv', LoadInv, [Next]_vars PROVE LoadInv'
  OBVIOUS
<1>0. Walk /\ Len(files) \in Nat /\ Len(files') \in Nat
  BY LenProperties DEF LInv, Walk
<1>1. CASE BeginInit
  <2>1. /\ pc' = "listing" /\ index' = 0 /\ count' = 0 /\ ret' = FALSE /\ conf' = conf
        /\ DOMAIN schema' = Table
    BY <1>1 DEF BeginInit, BeginListing, LoadInv
  <2>2. index' \in 0 .. Len(files')
    BY <1>0, <2>1
  <2>3. ret' \in BOOLEAN
    BY <2>1, Zenon
  <2>4. conf' \in Confs /\ count' \in Nat
    BY <2>1 DEF LoadInv
  <2> QED
    BY <2>1, <2>2, <2>3, <2>4 DEF LoadInv
<1>2. CASE (ReadDir \/ ReadFile \/ EndOfDir) /\ UNCHANGED <<conf, schemas>>
  <2>1. /\ pc = "listing" /\ UNCHANGED <<pc, index, conf, count, ret, schema>>
    BY <1>2 DEF ReadDir, ReadFile, EndOfDir, schemas
  <2>2. index' = 0 /\ index' \in 0 .. Len(files')
    BY <1>0, <2>1 DEF LoadInv
  <2>3. ret' \in BOOLEAN /\ (ret' <=> ret)
    BY <2>1 DEF LoadInv
  <2> QED
    BY <2>1, <2>2, <2>3 DEF LoadInv
<1>3. CASE EndListing /\ UNCHANGED <<conf, schemas>>
  <2>1. /\ pc = "listing" /\ pc' = "listed" /\ UNCHANGED <<index, conf, count, ret, schema>>
        /\ index = 0 /\ count = 0
    BY <1>3 DEF EndListing, schemas, LoadInv
  <2>2. Tables(index)' = {}
    BY <2>1 DEF Tables
  <2>3. Loaded(index)'
    <3>1. count' = Cardinality({}) /\ \A i \in Table : ~(i < count')
      BY <2>1, FS_EmptySet, SchemaAssumption DEF Table
    <3> QED
      BY <2>2, <3>1 DEF Loaded
  <2> QED
    BY <1>0, <2>1, <2>3 DEF LoadInv
<1>4. CASE LoadFile \/ EndInit
  BY <1>0, <1>4, LoadFileKeeps, EndInitKeeps
<1>5. CASE Correct
  BY <1>5 DEF Correct, LoadInv, listing, schemas
<1>6. CASE UNCHANGED svars
  <2>1. UNCHANGED <<pc, index, files, conf, count, ret, schema, refs>>
    BY <1>6 DEF svars, schemas, listing
  <2>2. Refs' = Refs
    BY <2>1 DEF Refs, ForeignKeys
  <2> QED
    BY <2>1, <2>2 DEF LoadInv, Loaded, Tables
<1>7. ASSUME NEW d \in Dao, NEW db \in [Table -> RowCount \union {Missing}],
             NEW connected \in BOOLEAN, DaoInit(d, db, connected)
      PROVE  LoadInv'
  BY <1>6, <1>7 DEF DaoInit
<1>8. CASE InitData \/ UNCHANGED vars
  BY <1>6, <1>8 DEF InitData, vars
<1> QED
  BY <1>1, <1>2, <1>3, <1>4, <1>5, <1>7, <1>8 DEF Next, SNext, Listing

\* The table files in the list are the table files that the listing comes to, and the
\* places before one of them those of the smaller ones.
LEMMA TablesAre ==
    ASSUME files \in Seq(File), InOrder
    PROVE  /\ \A f \in Reachable : \E j \in Tables(Len(files)) : files[j] = f
           /\ \A j \in Tables(Len(files)) :
                /\ files[j] \in Reachable
                /\ Cardinality({x \in Reachable : x < files[j]}) = Cardinality(Tables(j - 1))
           /\ Cardinality(Reachable) = Cardinality(Tables(Len(files)))
<1> DEFINE n == Len(files)
           S == Tables(n)
<1>1. n \in Nat /\ DOMAIN files = 1 .. n /\ \A j \in 1 .. n : files[j] \in Nat
  BY LenProperties, ElementOfSeq, TreeAssumption
<1>2. \A f : f \in Reachable <=> f \in TableFile /\ f \in ToSet(files)
  <2>1. \A f \in TableFile : f \notin Dir
    BY TreeAssumption DEF File
  <2> QED
    BY <2>1 DEF InOrder, Reachable, Found
<1>3. \A f : f \in ToSet(files) <=> \E j \in 1 .. n : files[j] = f
  BY <1>1 DEF ToSet
<1>4. \A f \in Reachable : \E j \in S : files[j] = f
  BY <1>2, <1>3 DEF Tables
<1>5. \A j \in S : files[j] \in Reachable
  BY <1>2, <1>3 DEF Tables
<1>6. \A i, j \in 1 .. n : i < j <=> files[i] < files[j]
  BY <1>1 DEF InOrder
<1>7. \A i, j \in 1 .. n : files[i] = files[j] => i = j
  BY <1>1, <1>6
<1> DEFINE place(A) == [j \in A |-> files[j]]
<1>8. ASSUME NEW A \in SUBSET S, IsFiniteSet(A), NEW B,
             \A j \in A : files[j] \in B, \A f \in B : \E j \in A : files[j] = f
      PROVE  Cardinality(B) = Cardinality(A)
  <2>1. \A j \in A : j \in 1 .. n
    BY <1>8 DEF Tables
  <2>2. place(A) \in Injection(A, B) /\ place(A) \in Surjection(A, B)
    BY <1>7, <1>8, <2>1 DEF Injection, Surjection, IsInjective
  <2> HIDE DEF place
  <2> QED
    BY <1>8, <2>2, FS_Surjection
<1>9. Cardinality(Reachable) = Cardinality(S)
  BY <1>1, <1>4, <1>5, <1>8, TablesFinite
<1>10. ASSUME NEW j \in S
       PROVE  Cardinality({x \in Reachable : x < files[j]}) = Cardinality(Tables(j - 1))
  <2> DEFINE B == {x \in Reachable : x < files[j]}
             A == Tables(j - 1)
  <2>1. j \in 1 .. n /\ j - 1 \in Nat /\ \A i : i \in 1 .. j - 1 <=> i \in 1 .. n /\ i < j
    BY <1>1 DEF Tables
  <2>2. \A i : i \in A <=> i \in S /\ i < j
    BY <2>1 DEF Tables
  <2>3. IsFiniteSet(A)
    BY <2>1, TablesFinite
  <2>4. \A i \in S : i \in 1 .. n
    BY DEF Tables
  <2> HIDE DEF A, S
  <2>5. \A i \in A : files[i] \in B
    BY <1>5, <1>6, <2>1, <2>2, <2>4
  <2>6. \A f \in B : \E i \in A : files[i] = f
    BY <1>4, <1>6, <2>1, <2>2, <2>4
  <2> HIDE DEF B
  <2>7. A \in SUBSET S
    BY <2>2
  <2>8. Cardinality(B) = Cardinality(A)
    BY <1>8, <2>3, <2>5, <2>6, <2>7
  <2> QED
    BY <2>8 DEF A, B
<1> QED
  BY <1>4, <1>5, <1>9, <1>10

\* Both invariants, and what the listing keeps.
Startable == LInv /\ FirstInv /\ LoadInv

LEMMA Starts == Spec => []Startable
<1>1. Init => Startable
  BY InitListed, InitFirst, InitLoaded DEF Startable
<1>2. Startable /\ [Next]_vars => Startable'
  BY StepListed, StepFirst, StepLoaded DEF Startable
<1> QED
  BY <1>1, <1>2, PTL DEF Spec

\* A first call that succeeds below the limit has every table file of the directories
\* that can be opened, read once and in the order of paths, in the entry its place
\* names, for every tree and every order of readdir.
THEOREM SchemaCorrect == Spec => []SchemaComplete
<1>1. ASSUME Startable, pc = "ready", attempts = 1, ~Limit(Len(files))
      PROVE  /\ Cardinality(Reachable) = TableNum
             /\ \A f \in Reachable :
                    schema[Cardinality({x \in Reachable : x < f})] = conf[f]
  <2>1. InOrder /\ Loaded(Len(files)) /\ count = TableNum
    BY <1>1 DEF Startable, FirstInv, LoadInv
  <2>2. files \in Seq(File) /\ Len(files) \in Nat
    BY <1>1, LenProperties DEF Startable, LInv, Walk
  <2>3. Cardinality(Reachable) = TableNum
    BY <2>1, <2>2, TablesAre DEF Loaded
  <2>4. ASSUME NEW f \in Reachable
        PROVE  schema[Cardinality({x \in Reachable : x < f})] = conf[f]
    <3>1. PICK j \in Tables(Len(files)) : files[j] = f
      BY <2>1, <2>2, TablesAre
    <3>2. Cardinality({x \in Reachable : x < f}) = Cardinality(Tables(j - 1))
      BY <2>1, <2>2, <3>1, TablesAre
    <3>3. Cardinality(Tables(j - 1)) \in Table
      <4>1. j \in 1 .. Len(files) /\ j - 1 \in Nat
        BY <2>2 DEF Tables
      <4>2. Tables(j - 1) \in SUBSET Tables(Len(files)) /\ j \notin Tables(j - 1)
        BY <2>2, <4>1 DEF Tables
      <4>3. Cardinality(Tables(j - 1)) <= Cardinality(Tables(Len(files)))
            /\ Cardinality(Tables(j - 1)) # Cardinality(Tables(Len(files)))
        BY <2>2, <4>2, TablesFinite, FS_Subset
      <4>4. Cardinality(Tables(j - 1)) \in Nat
        BY <4>1, TablesFinite
      <4> QED
        BY <2>1, <4>3, <4>4, SchemaAssumption DEF Loaded, Table
    <3> QED
      BY <2>1, <3>1, <3>2, <3>3 DEF Loaded
  <2> QED
    BY <2>3, <2>4
<1>2. Startable => SchemaComplete
  BY <1>1 DEF SchemaComplete
<1> QED
  BY <1>2, Starts, PTL

-----------------------------------------------------------------------------
(* The foreign keys                                                        *)

\* The places of the foreign keys, <<table, key number>>, and their order.
KeyPlaces == UNION {{i} \X DOMAIN schema[i].foreign : i \in Table}
KeyOrder == {p \in KeyPlaces \X KeyPlaces :
                p[1][1] < p[2][1] \/ (p[1][1] = p[2][1] /\ p[1][2] < p[2][2])}

\* What set_foreign_key_ref has entered after each of the keys.
RefLists == [Table -> Seq(Nat \X Nat)]
EnteredBy(g, keys) ==
    g = [n \in 0 .. Len(keys) |->
            IF n = 0 THEN [i \in Table |-> <<>>]
            ELSE [i \in Table |->
                    IF i = keys[n][3] THEN Append(g[n - 1][i], <<keys[n][1], keys[n][2]>>)
                    ELSE g[n - 1][i]]]

\* The keys of a schema that has been read are finitely many and in an order.
LEMMA KeysFinite ==
    ASSUME \A i \in Table : schema[i] \in Schema
    PROVE  /\ IsFiniteSet(KeyPlaces) /\ StrictOrder(KeyPlaces, KeyOrder)
           /\ \A k : k \in KeyPlaces <=>
                \E i \in Table : \E j \in DOMAIN schema[i].foreign : k = <<i, j>>
           /\ \A i \in Table : \A j \in DOMAIN schema[i].foreign :
                j \in Nat /\ schema[i].foreign[j] \in Nat \X Nat
<1>1. ASSUME NEW i \in Table
      PROVE  /\ schema[i].foreign \in Seq(Nat \X Nat) /\ i \in Nat
             /\ IsFiniteSet(DOMAIN schema[i].foreign)
             /\ \A j \in DOMAIN schema[i].foreign :
                    j \in Nat /\ schema[i].foreign[j] \in Nat \X Nat
  <2>1. schema[i].foreign \in Seq(Nat \X Nat) /\ i \in Nat
    BY SchemaAssumption DEF Schema, Table
  <2>2. Len(schema[i].foreign) \in Nat
        /\ DOMAIN schema[i].foreign = 1 .. Len(schema[i].foreign)
    BY <2>1, LenProperties
  <2>3. IsFiniteSet(1 .. Len(schema[i].foreign))
    BY <2>2, FS_Interval
  <2>4. \A j \in 1 .. Len(schema[i].foreign) : schema[i].foreign[j] \in Nat \X Nat
    BY <2>1, ElementOfSeq
  <2> QED
    BY <2>1, <2>2, <2>3, <2>4
<1> DEFINE ofTable == [i \in Table |-> {i} \X DOMAIN schema[i].foreign]
           parts == {{i} \X DOMAIN schema[i].foreign : i \in Table}
<1>2. IsFiniteSet(parts)
  <2>1. IsFiniteSet(Table)
    <3>1. 0 \in Int /\ TableNum - 1 \in Int
      BY SchemaAssumption
    <3> QED
      BY <3>1, FS_Interval DEF Table
  <2>2. ofTable \in Surjection(Table, parts)
    BY DEF Surjection
  <2> HIDE DEF ofTable, parts
  <2> QED
    BY <2>1, <2>2, FS_Surjection
<1>3. ASSUME NEW P \in parts PROVE IsFiniteSet(P)
  <2>1. PICK i \in Table : P = {i} \X DOMAIN schema[i].foreign
    OBVIOUS
  <2>2. IsFiniteSet({i})
    BY FS_Singleton
  <2>3. IsFiniteSet({i} \X DOMAIN schema[i].foreign)
    BY <1>1, <2>2, FS_Product
  <2> QED
    BY <2>1, <2>3
<1>4. IsFiniteSet(KeyPlaces)
  <2>1. KeyPlaces = UNION parts
    BY DEF KeyPlaces
  <2> HIDE DEF parts
  <2> QED
    BY <1>2, <1>3, <2>1, FS_UNION
<1>5. \A k : k \in KeyPlaces <=>
        \E i \in Table : \E j \in DOMAIN schema[i].foreign : k = <<i, j>>
  BY DEF KeyPlaces
<1>6. \A k \in KeyPlaces : k = <<k[1], k[2]>> /\ k[1] \in Nat /\ k[2] \in Nat
  BY <1>1, <1>5
<1>7. \A x, y \in KeyPlaces : <<x, y>> \in KeyOrder <=>
        (x[1] < y[1] \/ (x[1] = y[1] /\ x[2] < y[2]))
  BY DEF KeyOrder
<1>8. StrictOrder(KeyPlaces, KeyOrder)
  <2> SUFFICES ASSUME NEW x \in KeyPlaces, NEW y \in KeyPlaces, NEW z \in KeyPlaces
               PROVE  /\ <<x, x>> \notin KeyOrder
                      /\ x # y => (<<x, y>> \in KeyOrder \/ <<y, x>> \in KeyOrder)
                      /\ (<<x, y>> \in KeyOrder /\ <<y, z>> \in KeyOrder) => <<x, z>> \in KeyOrder
    BY DEF StrictOrder
  <2>1. /\ x[1] \in Int /\ y[1] \in Int /\ z[1] \in Int
        /\ x[2] \in Int /\ y[2] \in Int /\ z[2] \in Int
        /\ x # y => (x[1] # y[1] \/ x[2] # y[2])
    <3>1. x = <<x[1], x[2]>> /\ y = <<y[1], y[2]>>
      BY <1>6
    <3> QED
      BY <1>6, <3>1
  <2> QED
    BY <1>7, <2>1
<1> QED
  BY <1>1, <1>4, <1>5, <1>8

\* Each key has one place in the order.
LEMMA ForeignKeysAre ==
    ASSUME \A i \in Table : schema[i] \in Schema
    PROVE  LET n == Cardinality(KeyPlaces)  order == Arranged(KeyPlaces, KeyOrder) IN
           /\ ForeignKeys \in Seq(Nat \X Nat \X Nat) /\ Len(ForeignKeys) = n /\ n \in Nat
           /\ order \in [1 .. n -> KeyPlaces]
           /\ \A k \in KeyPlaces : \E m \in 1 .. n : order[m] = k
           /\ \A l, m \in 1 .. n : order[l] = order[m] => l = m
           /\ \A m \in 1 .. n : ForeignKeys[m] =
                <<schema[order[m][1]].id, schema[order[m][1]].foreign[order[m][2]][1],
                  schema[order[m][1]].foreign[order[m][2]][2]>>
<1> DEFINE n == Cardinality(KeyPlaces)
           order == Arranged(KeyPlaces, KeyOrder)
           key(k) == <<schema[k[1]].id, schema[k[1]].foreign[k[2]][1],
                       schema[k[1]].foreign[k[2]][2]>>
<1>1. /\ n \in Nat /\ order \in [1 .. n -> KeyPlaces]
      /\ \A k \in KeyPlaces : \E m \in 1 .. n : order[m] = k
      /\ \A l, m \in 1 .. n : order[l] = order[m] => l = m
  <2>1. IsFiniteSet(KeyPlaces) /\ StrictOrder(KeyPlaces, KeyOrder)
    BY KeysFinite
  <2> QED
    BY <2>1, ArrangedIs
<1>2. ForeignKeys = [m \in DOMAIN order |-> key(order[m])]
  BY DEF ForeignKeys, KeyPlaces, KeyOrder
<1> HIDE DEF order, n
<1>3. \A m \in 1 .. n : key(order[m]) \in Nat \X Nat \X Nat
  <2>1. ASSUME NEW k \in KeyPlaces PROVE key(k) \in Nat \X Nat \X Nat
    <3>0. PICK i \in Table : \E j \in DOMAIN schema[i].foreign : k = <<i, j>>
      BY KeysFinite
    <3>1. PICK j \in DOMAIN schema[i].foreign : k = <<i, j>>
      BY <3>0
    <3>2. schema[i].foreign[j] \in Nat \X Nat /\ schema[i].id \in Nat
      BY KeysFinite DEF Schema
    <3> QED
      BY <3>1, <3>2
  <2> HIDE DEF key
  <2> QED
    BY <1>1, <2>1
<1>4. ForeignKeys \in [1 .. n -> Nat \X Nat \X Nat]
  <2> HIDE DEF key
  <2> QED
    BY <1>1, <1>2, <1>3
<1>5. ForeignKeys \in Seq(Nat \X Nat \X Nat)
  BY <1>1, <1>4, IsASeq
<1>6. Len(ForeignKeys) = n
  BY <1>1, <1>4, <1>5, LenProperties
<1>7. \A m \in 1 .. n : ForeignKeys[m] = key(order[m])
  BY <1>1, <1>2
<1> QED
  BY <1>1, <1>5, <1>6, <1>7 DEF order, n

\* Refs follows from the keys one by one.
LEMMA RefsAre ==
    ASSUME ForeignKeys \in Seq(Nat \X Nat \X Nat)
    PROVE  \E g \in [0 .. Len(ForeignKeys) -> RefLists] :
                EnteredBy(g, ForeignKeys) /\ Refs = g[Len(ForeignKeys)]
<1> DEFINE keys == ForeignKeys
           n == Len(keys)
           none == [i \in Table |-> <<>>]
           enter(m, l) == [i \in Table |->
                IF i = keys[m][3] THEN Append(l[i], <<keys[m][1], keys[m][2]>>) ELSE l[i]]
           step == [p \in (1 .. n) \X RefLists |-> enter(p[1], p[2])]
<1>1. n \in Nat /\ none \in RefLists
  BY LenProperties, EmptySeq DEF RefLists
<1>2. ASSUME NEW m \in 1 .. n, NEW l \in RefLists PROVE enter(m, l) \in RefLists
  <2>1. keys[m] \in Nat \X Nat \X Nat
    BY ElementOfSeq
  <2>2. <<keys[m][1], keys[m][2]>> \in Nat \X Nat
    BY <2>1
  <2>3. \A i \in Table : /\ l[i] \in Seq(Nat \X Nat)
                         /\ Append(l[i], <<keys[m][1], keys[m][2]>>) \in Seq(Nat \X Nat)
    BY <2>2, AppendProperties DEF RefLists
  <2> QED
    BY <2>3 DEF RefLists
<1>3. step \in [(1 .. n) \X RefLists -> RefLists]
  <2> HIDE DEF enter
  <2> QED
    BY <1>2
<1>4. PICK f \in [0 .. n -> RefLists] :
        f[0] = none /\ \A m \in 1 .. n : f[m] = step[<<m, f[m - 1]>>]
  <2> HIDE DEF step, none, n
  <2> QED
    <3>1. Recurses(n, RefLists, none, step)
      BY <1>1, <1>3, Recursion
    <3> QED
      BY <3>1 DEF Recurses
<1>5. ASSUME NEW m \in 1 .. n PROVE f[m] = enter(m, f[m - 1])
  <2>1. m - 1 \in 0 .. n
    BY <1>1
  <2>2. f[m - 1] \in RefLists
    BY <1>4, <2>1
  <2> HIDE DEF enter
  <2> QED
    BY <1>4, <2>2
<1>6. EnteredBy(f, keys)
  <2>1. f = [m \in 0 .. n |-> IF m = 0 THEN none ELSE enter(m, f[m - 1])]
    <3> HIDE DEF enter, none
    <3>1. \A m \in 0 .. n : m = 0 \/ m \in 1 .. n
      BY <1>1
    <3> QED
      BY <1>4, <1>5, <3>1
  <2> QED
    BY <2>1 DEF EnteredBy
<1> DEFINE after == CHOOSE g : EnteredBy(g, keys)
<1>7. Refs = after[n]
  BY DEF Refs, EnteredBy
<1>8. EnteredBy(after, keys)
  <2> HIDE DEF EnteredBy
  <2> QED
    BY <1>6
<1> HIDE DEF after
<1>9. after \in [0 .. n -> RefLists]
  <2> DEFINE S == {m \in Nat : m <= n => after[m] \in RefLists}
  <2>1. \A m \in 0 .. n : after[m] = IF m = 0 THEN none ELSE enter(m, after[m - 1])
    BY <1>8 DEF EnteredBy
  <2>2. DOMAIN after = 0 .. n /\ after = [m \in 0 .. n |-> after[m]]
    BY <1>8 DEF EnteredBy
  <2> HIDE DEF enter, none, n
  <2>3. 0 \in S
    BY <1>1, <2>1
  <2>4. ASSUME NEW m \in S PROVE m + 1 \in S
    <3>1. CASE m + 1 <= n
      <4>1. after[m] \in RefLists /\ m + 1 \in 1 .. n /\ m + 1 \in 0 .. n
            /\ m + 1 # 0 /\ (m + 1) - 1 = m
        BY <1>1, <3>1
      <4>2. after[m + 1] = enter(m + 1, after[m])
        BY <2>1, <4>1
      <4> QED
        BY <1>2, <4>1, <4>2
    <3>2. CASE ~(m + 1 <= n)
      BY <3>2
    <3> QED
      BY <3>1, <3>2
  <2>5. S = Nat
    <3> HIDE DEF S
    <3>1. S \subseteq Nat
      BY DEF S
    <3> QED
      BY <2>3, <2>4, <3>1, Induction
  <2>6. ASSUME NEW m \in 0 .. n PROVE after[m] \in RefLists
    <3>1. m \in Nat /\ m <= n
      BY <1>1
    <3>2. m \in S
      BY <2>5, <3>1
    <3> QED
      BY <3>1, <3>2
  <2> QED
    BY <2>2, <2>6
<1> QED
  BY <1>7, <1>8, <1>9

\* The keys among the first n that refer to table t.
KeysTo(keys, t, n) == {m \in 1 .. n : keys[m][3] = t}

EnteredUpTo(g, keys, t, n) ==
    /\ IsFiniteSet(KeysTo(keys, t, n))
    /\ Len(g[n][t]) = Cardinality(KeysTo(keys, t, n))
    /\ ToSet(g[n][t]) = {<<keys[m][1], keys[m][2]>> : m \in KeysTo(keys, t, n)}

\* Every key that refers to a table is entered there once.
LEMMA EnteredIs ==
    ASSUME NEW keys \in Seq(Nat \X Nat \X Nat), NEW g \in [0 .. Len(keys) -> RefLists],
           EnteredBy(g, keys), NEW t \in Table
    PROVE  EnteredUpTo(g, keys, t, Len(keys))
<1> DEFINE Entered(n) == EnteredUpTo(g, keys, t, n)
           S == {n \in Nat : n <= Len(keys) => Entered(n)}
<1> USE DEF EnteredUpTo
<1>1. Len(keys) \in Nat
  BY LenProperties
<1>2. 0 \in S
  <2>1. g[0][t] = <<>>
    BY <1>1 DEF EnteredBy
  <2>2. KeysTo(keys, t, 0) = {}
    BY DEF KeysTo
  <2>3. Len(<<>>) = 0 /\ ToSet(<<>>) = {}
    BY DEF ToSet
  <2>4. Entered(0)
    BY <2>1, <2>2, <2>3, FS_EmptySet
  <2> QED
    BY <2>4
<1>3. ASSUME NEW n \in S PROVE n + 1 \in S
  <2>1. CASE n + 1 <= Len(keys)
    <3> DEFINE e == <<keys[n + 1][1], keys[n + 1][2]>>
               K == KeysTo(keys, t, n)
    <3>0. n \in Nat /\ n \in 0 .. Len(keys) /\ n + 1 \in 0 .. Len(keys)
          /\ n + 1 # 0 /\ (n + 1) - 1 = n
      <4> HIDE DEF Entered
      <4>1. n \in Nat
        OBVIOUS
      <4> HIDE DEF S
      <4> QED
        BY <1>1, <2>1, <4>1
    <3>1. Entered(n) /\ n \in Nat /\ n \in 0 .. Len(keys)
      <4> HIDE DEF Entered
      <4> QED
        BY <1>1, <2>1, <3>0
    <3>2. g[n + 1][t] = IF t = keys[n + 1][3] THEN Append(g[n][t], e) ELSE g[n][t]
      <4>1. \A m \in 0 .. Len(keys) : m # 0 => g[m] =
                [i \in Table |->
                    IF i = keys[m][3] THEN Append(g[m - 1][i], <<keys[m][1], keys[m][2]>>)
                    ELSE g[m - 1][i]]
        BY DEF EnteredBy
      <4>2. g[n + 1] = [i \in Table |->
                IF i = keys[n + 1][3]
                THEN Append(g[(n + 1) - 1][i], <<keys[n + 1][1], keys[n + 1][2]>>)
                ELSE g[(n + 1) - 1][i]]
        BY <3>0, <4>1, Zenon
      <4> QED
        BY <3>0, <4>2
    <3>3. g[n][t] \in Seq(Nat \X Nat)
      BY <3>1 DEF RefLists
    <3>4. 1 .. n + 1 = (1 .. n) \union {n + 1} /\ n + 1 \notin 1 .. n
      BY <3>1
    <3>5. CASE t = keys[n + 1][3]
      <4>1. KeysTo(keys, t, n + 1) = K \union {n + 1} /\ n + 1 \notin K
        BY <3>4, <3>5 DEF KeysTo
      <4>2. IsFiniteSet(K \union {n + 1}) /\ Cardinality(K \union {n + 1}) = Cardinality(K) + 1
        BY <3>1, <4>1, FS_AddElement
      <4>3. Len(g[n + 1][t]) = Len(g[n][t]) + 1
            /\ ToSet(g[n + 1][t]) = ToSet(g[n][t]) \union {e}
        <5> HIDE DEF e
        <5>1. Len(Append(g[n][t], e)) = Len(g[n][t]) + 1
              /\ ToSet(Append(g[n][t], e)) = ToSet(g[n][t]) \union {e}
          BY <3>3, Appended
        <5> QED
          BY <3>2, <3>5, <5>1
      <4>4. {<<keys[m][1], keys[m][2]>> : m \in K \union {n + 1}}
                = {<<keys[m][1], keys[m][2]>> : m \in K} \union {e}
        <5> HIDE DEF K
        <5> QED
          OBVIOUS
      <4>5. ToSet(g[n + 1][t]) =
                {<<keys[m][1], keys[m][2]>> : m \in KeysTo(keys, t, n + 1)}
        BY <3>1, <4>1, <4>3, <4>4
      <4>6. Len(g[n + 1][t]) = Cardinality(KeysTo(keys, t, n + 1))
        BY <3>1, <4>1, <4>2, <4>3
      <4>7. Entered(n + 1)
        BY <4>1, <4>2, <4>5, <4>6
      <4> HIDE DEF Entered
      <4> QED
        BY <3>1, <4>7
    <3>6. CASE t # keys[n + 1][3]
      <4>1. KeysTo(keys, t, n + 1) = K
        BY <3>4, <3>6 DEF KeysTo
      <4>2. Entered(n + 1)
        BY <3>1, <3>2, <3>6, <4>1
      <4> HIDE DEF Entered
      <4> QED
        BY <3>1, <4>2
    <3> QED
      BY <3>5, <3>6
  <2>2. CASE ~(n + 1 <= Len(keys))
    BY <2>2
  <2> QED
    BY <2>1, <2>2
<1>4. S = Nat
  <2> HIDE DEF S
  <2>1. S \subseteq Nat
    BY DEF S
  <2> QED
    BY <1>2, <1>3, <2>1, Induction
<1>5. Entered(Len(keys))
  <2>1. Len(keys) \in S
    BY <1>1, <1>4
  <2> HIDE DEF Entered
  <2> QED
    BY <1>1, <2>1
<1> QED
  BY <1>1, <1>5

\* Whatever order the schemas name their tables in, and however often a schema refers
\* to a table: once init has succeeded a table's list has an entry for each foreign key
\* that refers to it, and no other.
THEOREM RefsCorrect == Spec => []RefsMirrored
<1> DEFINE KeysOf(t) == {k \in KeyPlaces : schema[k[1]].foreign[k[2]][2] = t}
           made(k) == <<schema[k[1]].id, schema[k[1]].foreign[k[2]][1]>>
<1>1. ASSUME Startable, pc = "ready", NEW t \in Table
      PROVE  /\ Len(refs[t]) = Cardinality(KeysOf(t))
             /\ ToSet(refs[t]) = {made(k) : k \in KeysOf(t)}
  <2> DEFINE n == Cardinality(KeyPlaces)
             order == Arranged(KeyPlaces, KeyOrder)
             K == KeysTo(ForeignKeys, t, n)
             at == [m \in K |-> order[m]]
  <2>1. \A i \in Table : schema[i] \in Schema
    BY <1>1, SchemaAssumption DEF Startable, LoadInv, Loaded, Table
  <2>2. /\ ForeignKeys \in Seq(Nat \X Nat \X Nat) /\ Len(ForeignKeys) = n /\ n \in Nat
        /\ order \in [1 .. n -> KeyPlaces]
        /\ \A k \in KeyPlaces : \E m \in 1 .. n : order[m] = k
        /\ \A l, m \in 1 .. n : order[l] = order[m] => l = m
        /\ \A m \in 1 .. n : ForeignKeys[m] =
             <<schema[order[m][1]].id, schema[order[m][1]].foreign[order[m][2]][1],
               schema[order[m][1]].foreign[order[m][2]][2]>>
    BY <2>1, ForeignKeysAre
  <2>3. PICK g \in [0 .. Len(ForeignKeys) -> RefLists] :
            EnteredBy(g, ForeignKeys) /\ Refs = g[Len(ForeignKeys)]
    BY <2>2, RefsAre
  <2> HIDE DEF order, n
  <2>4. refs = g[n]
    BY <1>1, <2>2, <2>3 DEF Startable, LoadInv
  <2>5. /\ IsFiniteSet(K) /\ Len(refs[t]) = Cardinality(K)
        /\ ToSet(refs[t]) = {<<ForeignKeys[m][1], ForeignKeys[m][2]>> : m \in K}
    <3> DEFINE l == Len(ForeignKeys)
               L == KeysTo(ForeignKeys, t, l)
    <3>0. EnteredUpTo(g, ForeignKeys, t, l)
      BY <2>2, <2>3, EnteredIs
    <3>1. /\ IsFiniteSet(L) /\ Len(g[l][t]) = Cardinality(L)
          /\ ToSet(g[l][t]) = {<<ForeignKeys[m][1], ForeignKeys[m][2]>> : m \in L}
      BY <3>0 DEF EnteredUpTo
    <3>2. l = n /\ L = K
      BY <2>2
    <3> HIDE DEF l, L
    <3> QED
      BY <2>4, <3>1, <3>2
  <2>6. \A m \in 1 .. n : m \in K <=> order[m] \in KeysOf(t)
    BY <2>2 DEF KeysTo
  <2>7. K \subseteq 1 .. n /\ KeysOf(t) \subseteq KeyPlaces
    BY DEF KeysTo
  <2>8. \A m \in K : <<ForeignKeys[m][1], ForeignKeys[m][2]>> = made(order[m])
    <3>1. ASSUME NEW m \in 1 .. n
          PROVE  <<ForeignKeys[m][1], ForeignKeys[m][2]>> = made(order[m])
      <4>1. ForeignKeys[m] =
             <<schema[order[m][1]].id, schema[order[m][1]].foreign[order[m][2]][1],
               schema[order[m][1]].foreign[order[m][2]][2]>>
        BY <2>2
      <4> QED
        BY <4>1
    <3> HIDE DEF made, K
    <3> QED
      BY <2>7, <3>1
  <2> HIDE DEF K, KeysOf, made
  <2>9. at \in Surjection(K, KeysOf(t)) /\ at \in Injection(K, KeysOf(t))
    <3>1. \A m \in K : m \in 1 .. n /\ order[m] \in KeysOf(t)
      BY <2>6, <2>7
    <3>2. \A k \in KeysOf(t) : \E m \in K : order[m] = k
      BY <2>2, <2>6, <2>7
    <3>3. at \in [K -> KeysOf(t)] /\ \A l, m \in K : at[l] = at[m] => l = m
      BY <2>2, <3>1
    <3> QED
      BY <3>2, <3>3 DEF Surjection, Injection, IsInjective
  <2>10. Cardinality(KeysOf(t)) = Cardinality(K)
    <3> HIDE DEF at
    <3> QED
      BY <2>5, <2>9, FS_Surjection
  <2>11. ToSet(refs[t]) = {made(k) : k \in KeysOf(t)}
    <3>1. ToSet(refs[t]) = {made(order[m]) : m \in K}
      BY <2>5, <2>8
    <3>2. \A m \in K : order[m] \in KeysOf(t)
      BY <2>6, <2>7
    <3>3. \A k \in KeysOf(t) : \E m \in K : order[m] = k
      BY <2>2, <2>6, <2>7
    <3> QED
      BY <3>1, <3>2, <3>3
  <2> QED
    BY <2>5, <2>10, <2>11
<1>2. Startable => RefsMirrored
  BY <1>1 DEF RefsMirrored, KeyPlaces
<1> QED
  BY <1>2, Starts, PTL

-----------------------------------------------------------------------------
(* The rows of the files                                                   *)

\* What the DAOs have done once the schema is there.  The first one finds no path
\* and no row number.
Filled ==
    /\ IsFiniteSet(inited)
    /\ path \subseteq Table
    /\ inFile \in [Table -> Nat] /\ rowNum \in [Table -> RowCount \union {0}]
    /\ mapped \subseteq path
    /\ inited = {} => path = {} /\ ~beyond /\ \A i \in Table : rowNum[i] = 0
    /\ inited # {} => pc = "ready"
    /\ (IdsInOrder /\ Cardinality(inited) = 1) =>
        ~beyond /\ \A t \in path : rowNum[t] = inFile[t]

\* What a DAO's loop leaves, whichever tables its database lacks.
LEMMA FillKeeps ==
    ASSUME inFile \in [Table -> Nat], rowNum \in [Table -> RowCount \union {0}], path \subseteq Table,
           {IdOf(i) : i \in Table} \subseteq Table,
           NEW d \in Dao, NEW db \in [Table -> RowCount \union {Missing}], Fill(d, db)
    PROVE  /\ inFile' \in [Table -> Nat] /\ rowNum' \in [Table -> RowCount \union {0}]
           /\ path' \subseteq Table /\ path \subseteq path'
           /\ (IdsInOrder /\ path = {} /\ \A i \in Table : rowNum[i] = 0) =>
                \A t \in path' : rowNum'[t] = inFile'[t]
<1> DEFINE R == Reached(d, db)
           ids == {IdOf(i) : i \in R}
<1>1. R \subseteq Table
  BY DEF Reached
<1> HIDE DEF R
<1>2. ids \subseteq Table
  BY <1>1
<1>3. \A t \in Table : db[t] # Missing => db[t] \in Nat
  BY DaoAssumption
<1>4. /\ path' = path \union ids
      /\ inFile' = [t \in Table |-> IF t \notin ids THEN inFile[t]
                                    ELSE IF db[t] = Missing THEN 0 ELSE db[t]]
      /\ rowNum' = [i \in Table |-> IF i \in R /\ db[IdOf(i)] # Missing THEN db[IdOf(i)]
                                    ELSE rowNum[i]]
  BY DEF Fill, RowNumAfter, R
<1>5. inFile' \in [Table -> Nat]
  BY <1>3, <1>4
<1>6. rowNum' \in [Table -> RowCount \union {0}]
  <2>1. \A i \in R : IdOf(i) \in Table
    BY <1>1
  <2>2. \A t \in Table : db[t] # Missing => db[t] \in RowCount
    BY DaoAssumption
  <2> QED
    BY <1>4, <2>1, <2>2
<1>7. ASSUME IdsInOrder, path = {}, \A i \in Table : rowNum[i] = 0, NEW t \in path'
      PROVE  rowNum'[t] = inFile'[t]
  <2>1. PICK i \in R : t = IdOf(i)
    BY <1>4, <1>7
  <2>2. t = i /\ IdOf(t) = t /\ t \in Table /\ t \in R /\ t \in ids
    BY <1>1, <1>7, <2>1 DEF IdsInOrder
  <2>3. inFile'[t] = IF db[t] = Missing THEN 0 ELSE db[t]
    BY <1>4, <2>2
  <2>4. rowNum'[t] = IF db[t] # Missing THEN db[t] ELSE 0
    BY <1>4, <1>7, <2>2
  <2> QED
    BY <2>3, <2>4
<1> QED
  BY <1>2, <1>4, <1>5, <1>6, <1>7

\* No DAO has been initialized.
LEMMA InitFilled == Init => Filled
<1> SUFFICES ASSUME Init PROVE Filled
  OBVIOUS
<1> QED
  BY FS_EmptySet DEF Init, Filled

\* A DAO meets a schema that is final; the first one leaves each table it names with
\* the rows its file has, and init_data walks no more of them.
LEMMA StepFilled == Filled /\ [Next]_vars => Filled'
<1> SUFFICES ASSUME Filled, [Next]_vars PROVE Filled'
  OBVIOUS
<1>1. CASE SNext /\ UNCHANGED dvars
  <2>1. inited = {}
    BY <1>1 DEF Filled, SNext, Listing, ReadDir, ReadFile, EndOfDir, EndListing, BeginInit,
              LoadFile, EndInit, Correct
  <2>2. Cardinality(inited) = 0
    BY <2>1, FS_EmptySet
  <2> QED
    BY <1>1, <2>1, <2>2 DEF Filled, dvars
<1>2. ASSUME NEW d \in Dao, NEW db \in [Table -> RowCount \union {Missing}],
             NEW connected \in BOOLEAN, DaoInit(d, db, connected)
      PROVE  Filled'
  <2>1. /\ pc = "ready" /\ {IdOf(i) : i \in Table} \subseteq Table
        /\ d \notin inited /\ inited' = inited \union {d}
        /\ UNCHANGED <<pc, schema, beyond>>
    BY <1>2 DEF DaoInit, svars, schemas
  <2>2. \/ \E found \in [Table -> RowCount \union {Missing}] : Fill(d, found)
        \/ UNCHANGED <<path, inFile, rowNum>>
    <3>1. [t \in Table |-> Missing] \in [Table -> RowCount \union {Missing}]
      OBVIOUS
    <3> QED
      BY <1>2, <3>1 DEF DaoInit
  <2>3. /\ inFile' \in [Table -> Nat] /\ rowNum' \in [Table -> RowCount \union {0}]
        /\ path' \subseteq Table /\ path \subseteq path' /\ mapped' = mapped
        /\ (IdsInOrder /\ path = {} /\ \A i \in Table : rowNum[i] = 0) =>
            \A t \in path' : rowNum'[t] = inFile'[t]
    <3>1. CASE UNCHANGED <<path, inFile, rowNum>>
      BY <1>2, <3>1 DEF Filled, DaoInit
    <3>2. CASE \E found \in [Table -> RowCount \union {Missing}] : Fill(d, found)
      BY <1>2, <2>1, <3>2, FillKeeps DEF Filled, DaoInit
    <3> QED
      BY <2>2, <3>1, <3>2
  <2>4. IsFiniteSet(inited') /\ Cardinality(inited') = Cardinality(inited) + 1
        /\ Cardinality(inited) \in Nat
    BY <2>1, FS_AddElement, FS_CardinalityType DEF Filled
  <2>5. IdsInOrder' <=> IdsInOrder
    BY <2>1 DEF IdsInOrder, IdOf
  <2>6. CASE inited = {}
    BY <2>1, <2>3, <2>4, <2>5, <2>6 DEF Filled
  <2>7. CASE inited # {}
    <3>1. Cardinality(inited) # 0
      BY <2>7, FS_EmptySet DEF Filled
    <3>2. Cardinality(inited') # 1
      BY <2>4, <3>1
    <3> QED
      BY <2>1, <2>3, <2>4, <3>2 DEF Filled
  <2> QED
    BY <2>6, <2>7
<1>3. CASE InitData
  <2>1. /\ pc = "ready" /\ path # {} /\ UNCHANGED <<pc, schema, path, inFile, rowNum, inited>>
        /\ beyond' = (beyond \/ \E t \in path \ mapped : rowNum[t] > inFile[t])
    BY <1>3 DEF InitData, svars, schemas
  <2>2. IdsInOrder' <=> IdsInOrder
    BY <2>1 DEF IdsInOrder, IdOf
  <2>3. ASSUME IdsInOrder, Cardinality(inited) = 1 PROVE ~beyond'
    <3>1. ~beyond /\ \A t \in path : rowNum[t] = inFile[t] /\ inFile[t] \in Nat
      BY <2>3 DEF Filled
    <3>2. \A t \in path : ~(rowNum[t] > inFile[t])
      BY <3>1
    <3> QED
      BY <2>1, <3>1, <3>2
  <2>4. inited # {}
    BY <2>1 DEF Filled
  <2>5. mapped' = path
    BY <1>3 DEF InitData
  <2> QED
    BY <2>1, <2>2, <2>3, <2>4, <2>5 DEF Filled
<1>4. CASE UNCHANGED vars
  BY <1>4 DEF vars, svars, schemas, dvars, Filled, IdsInOrder, IdOf
<1> QED
  BY <1>1, <1>2, <1>3, <1>4 DEF Next

\* With one DAO and files in the order of their table ids, init_data walks the rows
\* that the files have, for every schema and whatever tables a database lacks.
THEOREM RowsCorrect == Spec => []RowsInFile
<1>1. Filled => RowsInFile
  BY DEF Filled, RowsInFile
<1> QED
  BY <1>1, InitFilled, StepFilled, PTL DEF Spec

\* The states are of the types the code gives them: the list has files only, nothing
\* is mapped without a path, and a call of init that succeeds leaves no entry of the
\* array without a schema.
THEOREM TypeCorrect == Spec => []TypeOK
<1>1. ASSUME Startable, Filled PROVE TypeOK
  <2>1. \A i \in Table : rowNum[i] \in RowCount \union {0}
    BY <1>1 DEF Filled
  <2>2. pc = "ready" => \A i \in Table : schema[i] \in Schema
    BY <1>1, SchemaAssumption DEF Startable, LoadInv, Loaded, Table
  <2> QED
    BY <1>1, <2>1, <2>2 DEF TypeOK, Startable, LInv, Walk, LoadInv, Filled
<1>2. Spec => []Filled
  BY InitFilled, StepFilled, PTL DEF Spec
<1> QED
  BY <1>1, <1>2, Starts, PTL
=============================================================================
