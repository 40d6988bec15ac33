--------------------------- MODULE RowIndexProof ---------------------------
(***************************************************************************)
(* Proofs about RowIndex, for every schema, every set of rows and values   *)
(* and every OffsetLimit that fits them: the bytes, offsets and lists keep *)
(* their types, no copy exceeds its block, and the module implements       *)
(* RowStore.                                                               *)
(*                                                                         *)
(* The invariant, RInv, says what is in a file (the lines of its rows in   *)
(* their order, and a malformed one at the end of a torn table's) and in   *)
(* memory (the line of some row, with its offsets).  The lemmas before it  *)
(* say what is read from such bytes: a string from a text, the columns     *)
(* from a line, the lines from a file.                                     *)
(***************************************************************************)
EXTENDS RowIndex, NumberFacts

-----------------------------------------------------------------------------
(* Texts                                                                   *)

Char == Nat \ {Nul, Newline}

\* The string s stands in a text at an offset, with its NUL.
StringAt(text, at, s) ==
    /\ at + Len(s) < Len(text)
    /\ \A i \in 1 .. Len(s) : text[at + i] = s[i]
    /\ text[at + Len(s) + 1] = Nul

\* strlen stops at the NUL, and the string is read.
LEMMA StringThere ==
    ASSUME NEW text \in Seq(Nat), NEW at \in Nat, NEW s \in Seq(Char), StringAt(text, at, s)
    PROVE  StrLen(text, at) = Len(s) /\ CStr(text, at) = s
<1>1. Len(text) \in Nat /\ Len(s) \in Nat
  BY LenProperties
<1>2. \A i \in 1 .. Len(s) : s[i] \in Nat /\ s[i] # Nul
  BY ElementOfSeq DEF Char
<1> DEFINE stops(i) == /\ i = Len(text) \/ text[i + 1] = Nul
                       /\ \A j \in at .. i - 1 : text[j + 1] # Nul
<1>3. at + Len(s) \in at .. Len(text) /\ stops(at + Len(s))
  <2>1. ASSUME NEW j \in at .. at + Len(s) - 1 PROVE text[j + 1] # Nul
    <3>1. j + 1 - at \in 1 .. Len(s) /\ at + (j + 1 - at) = j + 1
      BY <1>1
    <3> QED
      BY <1>2, <3>1 DEF StringAt
  <2> QED
    BY <1>1, <2>1 DEF StringAt
<1>4. ASSUME NEW i \in at .. Len(text), stops(i) PROVE i = at + Len(s)
  <2>1. CASE i < at + Len(s)
    <3>1. i + 1 - at \in 1 .. Len(s) /\ at + (i + 1 - at) = i + 1
      BY <1>1, <2>1
    <3>2. text[i + 1] # Nul
      BY <1>2, <3>1 DEF StringAt
    <3> QED
      BY <1>1, <1>4, <2>1, <3>2 DEF StringAt
  <2>2. CASE at + Len(s) < i
    <3>1. at + Len(s) \in at .. i - 1
      BY <1>1, <2>2
    <3> QED
      BY <1>4, <3>1 DEF StringAt
  <2> QED
    BY <1>1, <2>1, <2>2
<1>5. (CHOOSE i \in at .. Len(text) : stops(i)) = at + Len(s)
  <2> HIDE DEF stops
  <2> QED
    BY <1>3, <1>4
<1>6. StrLen(text, at) = Len(s)
  <2>1. StrLen(text, at) = (CHOOSE i \in at .. Len(text) : stops(i)) - at
    BY DEF StrLen
  <2> HIDE DEF stops
  <2>2. StrLen(text, at) = (at + Len(s)) - at
    BY <1>5, <2>1, Zenon
  <2> QED
    BY <1>1, <2>2
<1>7. CStr(text, at) = s
  <2>1. at \in 0 .. Len(text)
    BY <1>1 DEF StringAt
  <2>2. \A i \in at + 1 .. at + Len(s) : text[i] \in Nat
    <3>1. ASSUME NEW i \in at + 1 .. at + Len(s) PROVE text[i] \in Nat
      <4>1. i \in 1 .. Len(text)
        BY <1>1 DEF StringAt
      <4> QED
        BY <4>1, ElementOfSeq
    <3> QED
      BY <3>1
  <2> DEFINE u == SubSeq(text, at + 1, at + Len(s))
  <2>3. /\ u \in Seq(Nat)
        /\ Len(u) = IF at + 1 <= at + Len(s) THEN at + Len(s) - (at + 1) + 1 ELSE 0
        /\ \A i \in 1 .. at + Len(s) - (at + 1) + 1 : u[i] = text[at + 1 + i - 1]
    <3>1. at + 1 \in Int /\ at + Len(s) \in Int
      BY <1>1
    <3> QED
      BY <2>2, <3>1, SubSeqProperties
  <2> HIDE DEF u
  <2>4. Len(u) = Len(s)
    BY <1>1, <2>3
  <2>5. \A i \in 1 .. Len(u) : u[i] = s[i]
    <3>1. ASSUME NEW i \in 1 .. Len(s) PROVE u[i] = text[at + i]
      <4>1. i \in 1 .. at + Len(s) - (at + 1) + 1 /\ at + 1 + i - 1 = at + i
        BY <1>1
      <4> QED
        BY <2>3, <4>1
    <3> QED
      BY <2>4, <3>1 DEF StringAt
  <2>6. s \in Seq(Nat)
    <3>1. Char \subseteq Nat
      BY DEF Char
    <3> QED
      BY <3>1, SeqMonotonic
  <2>7. u = s
    BY <2>3, <2>4, <2>5, <2>6, SeqEqual
  <2> QED
    BY <1>6, <2>1, <2>7 DEF CStr, u
<1> QED
  BY <1>6, <1>7

\* The bytes of a text put together from two.
Spliced(x, a, b) ==
    /\ x \in Seq(Nat) /\ Len(x) = Len(a) + Len(b)
    /\ \A i \in 1 .. Len(a) : x[i] = a[i]
    /\ \A i \in 1 .. Len(b) : x[Len(a) + i] = b[i]

\* The join of two texts is that.
LEMMA SpliceIs ==
    ASSUME NEW a \in Seq(Nat), NEW b \in Seq(Nat)
    PROVE  Spliced(a \o b, a, b)
<1> DEFINE x == a \o b
<1>1. Len(a) \in Nat /\ Len(b) \in Nat
  BY LenProperties
<1>2. /\ x \in Seq(Nat) /\ Len(x) = Len(a) + Len(b)
      /\ \A i \in 1 .. Len(a) + Len(b) : x[i] = IF i <= Len(a) THEN a[i] ELSE b[i - Len(a)]
  BY ConcatProperties
<1> HIDE DEF x
<1>3. ASSUME NEW i \in 1 .. Len(a) PROVE x[i] = a[i]
  BY <1>1, <1>2
<1>4. ASSUME NEW i \in 1 .. Len(b) PROVE x[Len(a) + i] = b[i]
  <2>1. /\ Len(a) + i \in 1 .. Len(a) + Len(b) /\ ~(Len(a) + i <= Len(a))
        /\ Len(a) + i - Len(a) = i
    BY <1>1
  <2> QED
    BY <1>2, <2>1
<1>5. Spliced(x, a, b)
  BY <1>2, <1>3, <1>4 DEF Spliced
<1> QED
  BY <1>5 DEF x

\* A text made of three pieces, with a string in the middle.
LEMMA StringInside ==
    ASSUME NEW a \in Seq(Nat), NEW s \in Seq(Nat), NEW b \in Seq(Nat)
    PROVE  StringAt((a \o (s \o <<Nul>>)) \o b, Len(a), s)
<1> DEFINE z == <<Nul>>
           m == s \o z
           p == a \o m
           text == p \o b
<1>0. z \in Seq(Nat) /\ Len(z) = 1 /\ z[1] = Nul
  BY DEF Nul
<1> HIDE DEF z
<1>1. Len(a) \in Nat /\ Len(s) \in Nat /\ Len(b) \in Nat
  BY LenProperties
<1>2. Spliced(m, s, z)
  BY <1>0, SpliceIs
<1> HIDE DEF m
<1>3. Spliced(p, a, m)
  BY <1>2, SpliceIs DEF Spliced
<1> HIDE DEF p
<1>4. Spliced(text, p, b)
  BY <1>3, SpliceIs DEF Spliced
<1> HIDE DEF text
<1> USE DEF Spliced
<1>5. Len(a) + Len(s) < Len(text)
  BY <1>0, <1>1, <1>2, <1>3, <1>4
<1>6. ASSUME NEW i \in 1 .. Len(s) + 1 PROVE text[Len(a) + i] = m[i]
  <2>1. Len(a) + i \in 1 .. Len(p) /\ i \in 1 .. Len(m)
    BY <1>0, <1>1, <1>2, <1>3
  <2> QED
    BY <1>3, <1>4, <2>1
<1>7. ASSUME NEW i \in 1 .. Len(s) PROVE text[Len(a) + i] = s[i]
  <2>1. i \in 1 .. Len(s) + 1
    BY <1>1
  <2> QED
    BY <1>2, <1>6, <2>1
<1>8. text[Len(a) + Len(s) + 1] = Nul
  <2>1. Len(s) + 1 \in 1 .. Len(s) + 1 /\ Len(a) + (Len(s) + 1) = Len(a) + Len(s) + 1
    BY <1>1
  <2>2. text[Len(a) + (Len(s) + 1)] = m[Len(s) + 1]
    BY <1>6, <2>1
  <2>3. m[Len(s) + 1] = z[1]
    BY <1>0, <1>2
  <2> QED
    BY <1>0, <2>1, <2>2, <2>3
<1>9. StringAt(text, Len(a), s)
  BY <1>5, <1>7, <1>8 DEF StringAt
<1> QED
  BY <1>9 DEF text, p, m, z

-----------------------------------------------------------------------------
(* The columns of a row                                                    *)

\* Three texts put together.
Regrouped(a, b, c) == (a \o b) \o c = a \o (b \o c)

\* Joining texts is associative.
LEMMA Regroup ==
    ASSUME NEW a \in Seq(Nat), NEW b \in Seq(Nat), NEW c \in Seq(Nat)
    PROVE  Regrouped(a, b, c)
BY ConcatAssociative DEF Regrouped

\* The columns of a row, each with its NUL.
Cols(n, row) == [i \in 1 .. n |-> row[i - 1] \o <<Nul>>]

ColumnText(n, row, i) ==
    /\ Cols(n, row)[i] = row[i - 1] \o <<Nul>>
    /\ Cols(n, row)[i] \in Seq(Nat)
    /\ Len(Cols(n, row)[i]) = Len(row[i - 1]) + 1
    /\ row[i - 1] \in Seq(Nat) /\ row[i - 1] \in Seq(Char)

\* Every column with its NUL is a text.
LEMMA ColsAre ==
    ASSUME NEW n \in Nat, NEW row \in [0 .. n - 1 -> Value], NEW i \in 1 .. n
    PROVE  ColumnText(n, row, i)
<1>1. row[i - 1] \in Value /\ Cols(n, row)[i] = row[i - 1] \o <<Nul>>
  BY DEF Cols
<1>2. row[i - 1] \in Seq(Char)
  BY <1>1, CharAssumption DEF Char
<1>3. row[i - 1] \in Seq(Nat)
  <2>1. Char \subseteq Nat
    BY DEF Char
  <2> QED
    BY <1>2, <2>1, SeqMonotonic
<1> DEFINE s == row[i - 1]
           z == <<Nul>>
<1>4. z \in Seq(Nat) /\ Len(z) = 1
  BY DEF Nul
<1>5. s \in Seq(Nat)
  BY <1>3
<1> HIDE DEF s, z
<1>6. s \o z \in Seq(Nat) /\ Len(s \o z) = Len(s) + Len(z)
  BY <1>4, <1>5, ConcatProperties
<1> QED
  BY <1>1, <1>2, <1>3, <1>4, <1>6 DEF s, z, ColumnText

\* Where column c of a row starts.
Start(n, row, c) == Len(Joined(c, Cols(n, row)))

ColumnPlace(n, row, rest, c) ==
    /\ Start(n, row, c) \in Nat /\ Start(n, row, c + 1) \in Nat
    /\ Start(n, row, c + 1) = Start(n, row, c) + Len(row[c]) + 1
    /\ StringAt(Joined(n, Cols(n, row)) \o rest, Start(n, row, c), row[c])

\* Every column of a row stands at the end of those before it, whatever follows
\* the row.
LEMMA ColumnsPlaced ==
    ASSUME NEW n \in Nat, NEW row \in [0 .. n - 1 -> Value], NEW rest \in Seq(Nat),
           NEW c \in 0 .. n - 1
    PROVE  ColumnPlace(n, row, rest, c)
<1> DEFINE cols == Cols(n, row)
           s == row[c]
<1>0. c \in Nat /\ c + 1 \in 1 .. n /\ c + 1 \in 0 .. n /\ c + 1 - 1 = c /\ c + 1 <= n
      /\ n \in Nat
  OBVIOUS
<1>1. \A i \in 1 .. n : cols[i] \in Seq(Nat)
  BY ColsAre DEF ColumnText
<1>2. cols[c + 1] = s \o <<Nul>> /\ Len(cols[c + 1]) = Len(s) + 1 /\ s \in Seq(Nat)
  <2>1. ColumnText(n, row, c + 1)
    BY <1>0, ColsAre
  <2> QED
    BY <1>0, <2>1 DEF ColumnText
<1> HIDE DEF cols, s
<1>3. JoinedBy(Nat, cols, c)
  BY <1>0, <1>1, JoinedNext
<1> DEFINE a == Joined(c, cols)
           p == Joined(c + 1, cols)
           w == Joined(n, cols)
<1>4. PICK r \in Seq(Nat) : w = p \o r
  <2>1. BeginsWith(Nat, w, p)
    BY <1>0, <1>1, JoinedBegins
  <2> QED
    BY <2>1 DEF BeginsWith
<1>5. a \in Seq(Nat) /\ p \in Seq(Nat) /\ p = a \o cols[c + 1]
      /\ Len(p) = Len(a) + Len(cols[c + 1])
  BY <1>3 DEF JoinedBy
<1> HIDE DEF a, p, w
<1>6. Len(a) \in Nat /\ Len(p) \in Nat /\ Len(s) \in Nat
  BY <1>2, <1>5, LenProperties
<1>7. r \o rest \in Seq(Nat)
  BY ConcatProperties
<1>8. (p \o r) \o rest = p \o (r \o rest)
  <2>1. p \in Seq(Nat) /\ r \in Seq(Nat) /\ rest \in Seq(Nat)
    BY <1>5
  <2>2. Regrouped(p, r, rest)
    BY <2>1, Regroup
  <2> QED
    BY <2>2 DEF Regrouped
<1>9. StringAt((a \o (s \o <<Nul>>)) \o (r \o rest), Len(a), s)
  BY <1>2, <1>5, <1>7, StringInside
<1>10. w \o rest = (a \o (s \o <<Nul>>)) \o (r \o rest)
  BY <1>2, <1>4, <1>5, <1>8, Zenon
<1>11. StringAt(w \o rest, Len(a), s)
  BY <1>9, <1>10, Zenon
<1>12. Len(p) = Len(a) + Len(s) + 1
  BY <1>2, <1>5, <1>6
<1> QED
  BY <1>6, <1>11, <1>12 DEF a, p, w, cols, s, ColumnPlace, Start

\* The ends of a row's columns are those set_offset finds, whatever follows them.
LEMMA EndsAre ==
    ASSUME NEW t \in Table, NEW row \in [ColumnsOf(t) -> Value], NEW rest \in Seq(Nat),
           NEW text, text = Joined(ColumnNum[t], Cols(ColumnNum[t], row)) \o rest
    PROVE  Ends(t, text) = [c \in ColumnsOf(t) |-> Start(ColumnNum[t], row, c + 1)]
<1> DEFINE n == ColumnNum[t]
           EndsTo(e) == e = [c \in ColumnsOf(t) |->
                (IF c = 0 THEN 0 ELSE e[c - 1])
                + StrLen(text, IF c = 0 THEN 0 ELSE e[c - 1]) + 1]
           g == [c \in ColumnsOf(t) |-> Start(n, row, c + 1)]
<1>0. n \in Nat /\ n # 0 /\ n - 1 \in Nat /\ ColumnsOf(t) = 0 .. n - 1
  BY TableAssumption DEF ColumnsOf
<1>1. text \in Seq(Nat)
  <2>1. Joined(n, Cols(n, row)) \in Seq(Nat)
    <3>1. \A i \in 1 .. n : Cols(n, row)[i] \in Seq(Nat)
      BY <1>0, ColsAre DEF ColumnText
    <3> QED
      BY <1>0, <3>1, JoinedIs
  <2> HIDE DEF n
  <2> QED
    BY <2>1, ConcatProperties DEF n
<1>2. Start(n, row, 0) = 0
  <2>1. \A i \in 1 .. 0 : Cols(n, row)[i] \in Seq(Nat)
    OBVIOUS
  <2>2. Joined(0, Cols(n, row)) = <<>>
    BY <2>1, JoinedIs
  <2> QED
    BY <2>2, EmptySeq DEF Start
<1> HIDE DEF n
<1>3. \A c \in 0 .. n - 1 : StrLen(text, Start(n, row, c)) = Len(row[c])
                            /\ Start(n, row, c + 1) = Start(n, row, c) + Len(row[c]) + 1
  <2> SUFFICES ASSUME NEW c \in 0 .. n - 1
               PROVE  StrLen(text, Start(n, row, c)) = Len(row[c])
                      /\ Start(n, row, c + 1) = Start(n, row, c) + Len(row[c]) + 1
    OBVIOUS
  <2>1. ColumnPlace(n, row, rest, c)
    BY <1>0, ColumnsPlaced
  <2>2. row[c] \in Seq(Char)
    BY <1>0, CharAssumption DEF Char
  <2> QED
    BY <1>1, <2>1, <2>2, StringThere DEF ColumnPlace, n
<1>4. \A c \in 0 .. n - 1 : g[c] = Start(n, row, c + 1)
  BY <1>0
<1>5. \A c \in 0 .. n - 1 : (IF c = 0 THEN 0 ELSE g[c - 1]) = Start(n, row, c)
  <2> SUFFICES ASSUME NEW c \in 0 .. n - 1
               PROVE  (IF c = 0 THEN 0 ELSE g[c - 1]) = Start(n, row, c)
    OBVIOUS
  <2>1. CASE c = 0
    BY <1>2, <2>1
  <2>2. CASE c # 0
    <3>1. c - 1 \in 0 .. n - 1 /\ c - 1 + 1 = c
      BY <1>0, <2>2
    <3> QED
      BY <1>4, <2>2, <3>1
  <2> QED
    BY <2>1, <2>2
<1>6. EndsTo(g)
  <2>1. \A c \in 0 .. n - 1 : g[c] = (IF c = 0 THEN 0 ELSE g[c - 1])
                               + StrLen(text, IF c = 0 THEN 0 ELSE g[c - 1]) + 1
    BY <1>3, <1>4, <1>5
  <2> HIDE DEF g
  <2>2. g = [c \in 0 .. n - 1 |-> g[c]]
    BY <1>0 DEF g
  <2> QED
    BY <1>0, <2>1, <2>2
<1>7. ASSUME NEW e, EndsTo(e) PROVE e = g
  <2>0. \A c \in 0 .. n - 1 : e[c] = (IF c = 0 THEN 0 ELSE e[c - 1])
                               + StrLen(text, IF c = 0 THEN 0 ELSE e[c - 1]) + 1
    BY <1>0, <1>7
  <2>1. \A c \in 0 .. n - 1 : g[c] = (IF c = 0 THEN 0 ELSE g[c - 1])
                               + StrLen(text, IF c = 0 THEN 0 ELSE g[c - 1]) + 1
    BY <1>3, <1>4, <1>5
  <2>2. e = [c \in 0 .. n - 1 |-> e[c]]
    BY <1>0, <1>7
  <2> HIDE DEF g
  <2>3. e[0] = g[0]
    <3>1. 0 \in 0 .. n - 1
      BY <1>0
    <3> QED
      BY <2>0, <2>1, <3>1
  <2>4. ASSUME NEW m \in 1 .. n - 1, e[m - 1] = g[m - 1] PROVE e[m] = g[m]
    <3>1. m \in 0 .. n - 1 /\ m # 0
      BY <1>0
    <3> QED
      BY <2>0, <2>1, <2>4, <3>1
  <2>5. \A c \in 0 .. n - 1 : e[c] = g[c]
    <3> DEFINE k == n - 1
    <3>1. k \in Nat /\ \A m \in 1 .. k : e[m - 1] = g[m - 1] => e[m] = g[m]
      BY <1>0, <2>4
    <3> HIDE DEF k
    <3>2. Alike(k, e, g)
      BY <2>3, <3>1, StepAlike
    <3> QED
      BY <3>2 DEF k, Alike
  <2>6. g = [c \in 0 .. n - 1 |-> g[c]]
    BY <1>0 DEF g
  <2> QED
    BY <2>2, <2>5, <2>6
<1>8. Ends(t, text) = CHOOSE e : EndsTo(e)
  BY DEF Ends
<1> HIDE DEF EndsTo, g
<1>9. Ends(t, text) = g
  BY <1>6, <1>7, <1>8
<1> QED
  BY <1>9 DEF g, n

-----------------------------------------------------------------------------
(* Offsets of 16 bits                                                      *)

\* A product grows with its factors.
LEMMA Products ==
    ASSUME NEW a \in Nat, NEW b \in Nat, NEW c \in Nat, a <= b
    PROVE  c * a <= c * b /\ a * c <= b * c /\ (a + 1) * c = a * c + c /\ c * a \in Nat
<1>1. PICK d \in Nat : b = a + d
  <2>1. b - a \in Nat /\ b = a + (b - a)
    OBVIOUS
  <2> QED
    BY <2>1
<1>2. c * d \in Nat /\ c * (a + d) = c * a + c * d /\ (a + d) * c = a * c + c * d
      /\ c * a \in Nat /\ a * c \in Nat
  OBVIOUS
<1>3. (a + 1) * c = a * c + c
  OBVIOUS
<1> QED
  BY <1>1, <1>2, <1>3

\* Every column starts at an offset that fits.
LEMMA StartFits ==
    ASSUME NEW t \in Table, NEW row \in [ColumnsOf(t) -> Value], NEW c \in ColumnsOf(t)
    PROVE  Start(ColumnNum[t], row, c) \in 0 .. OffsetLimit - 1
<1> DEFINE n == ColumnNum[t]
           len(d) == Len(row[d]) + 1
           P(i) == /\ Start(n, row, i) \in Nat
                   /\ \E d \in 0 .. n - 1 : Start(n, row, i) <= i * len(d)
           S == {i \in Nat : i <= n - 1 => P(i)}
<1>0. n \in Nat /\ n # 0 /\ n - 1 \in Nat /\ ColumnsOf(t) = 0 .. n - 1 /\ 0 \in 0 .. n - 1
  BY TableAssumption DEF ColumnsOf
<1>1. \A d \in 0 .. n - 1 : len(d) \in Nat
  <2> SUFFICES ASSUME NEW d \in 0 .. n - 1 PROVE len(d) \in Nat
    OBVIOUS
  <2>1. row[d] \in Seq(Char)
    BY <1>0, CharAssumption DEF Char
  <2>2. Len(row[d]) \in Nat
    BY <2>1, LenProperties
  <2> QED
    BY <2>2
<1>2. \A i \in 0 .. n - 1 : /\ Start(n, row, i) \in Nat /\ Start(n, row, i + 1) \in Nat
                            /\ Start(n, row, i + 1) = Start(n, row, i) + len(i)
  <2> SUFFICES ASSUME NEW i \in 0 .. n - 1
               PROVE  /\ Start(n, row, i) \in Nat /\ Start(n, row, i + 1) \in Nat
                      /\ Start(n, row, i + 1) = Start(n, row, i) + len(i)
    OBVIOUS
  <2>1. <<>> \in Seq(Nat)
    OBVIOUS
  <2>2. ColumnPlace(n, row, <<>>, i)
    BY <1>0, <2>1, ColumnsPlaced
  <2>3. Len(row[i]) \in Int
    BY <1>1
  <2> QED
    BY <2>2, <2>3 DEF ColumnPlace
<1>3. Start(n, row, 0) = 0
  <2>1. \A i \in 1 .. 0 : Cols(n, row)[i] \in Seq(Nat)
    OBVIOUS
  <2>2. Joined(0, Cols(n, row)) = <<>>
    BY <2>1, JoinedIs
  <2> QED
    BY <2>2, EmptySeq DEF Start
<1> HIDE DEF n, len
<1>4. 0 \in S
  <2>1. 0 * len(0) = 0
    BY <1>0, <1>1
  <2> QED
    BY <1>0, <1>3, <2>1
<1>5. ASSUME NEW i \in S PROVE i + 1 \in S
  <2>0. i \in Nat /\ (i <= n - 1 => P(i))
    OBVIOUS
  <2> HIDE DEF S
  <2> SUFFICES ASSUME i + 1 <= n - 1 PROVE P(i + 1)
    BY <2>0 DEF S
  <2>1. i \in 0 .. n - 1 /\ P(i)
    BY <1>0, <2>0
  <2>2. PICK d \in 0 .. n - 1 : Start(n, row, i) <= i * len(d)
    BY <2>1
  <2>3. /\ Start(n, row, i + 1) = Start(n, row, i) + len(i)
        /\ Start(n, row, i) \in Nat /\ Start(n, row, i + 1) \in Nat
        /\ len(i) \in Nat /\ len(d) \in Nat
    BY <1>1, <1>2, <2>1
  <2>4. CASE len(i) <= len(d)
    <3>1. (i + 1) * len(d) = i * len(d) + len(d) /\ i * len(d) \in Nat
      BY <2>0, <2>3, Products
    <3>2. Start(n, row, i + 1) <= (i + 1) * len(d)
      BY <2>2, <2>3, <2>4, <3>1
    <3> QED
      BY <2>3, <3>2
  <2>5. CASE len(d) <= len(i)
    <3>1. i * len(d) <= i * len(i) /\ i * len(d) \in Nat
      BY <2>0, <2>3, <2>5, Products
    <3>2. (i + 1) * len(i) = i * len(i) + len(i) /\ i * len(i) \in Nat
      <4> DEFINE x == len(i)
      <4>1. i \in Nat /\ x \in Nat
        BY <2>0, <2>3
      <4> HIDE DEF x
      <4>2. (i + 1) * x = i * x + x /\ i * x \in Nat
        BY <4>1
      <4> QED
        BY <4>2 DEF x
    <3>3. Start(n, row, i + 1) <= (i + 1) * len(i)
      BY <2>2, <2>3, <3>1, <3>2
    <3> QED
      BY <2>1, <2>3, <3>3
  <2> QED
    BY <2>3, <2>4, <2>5
<1>6. S = Nat
  <2> HIDE DEF S
  <2>1. S \subseteq Nat
    BY DEF S
  <2> QED
    BY <1>4, <1>5, <2>1, Induction
<1>7. c \in Nat /\ c <= n - 1
  BY <1>0
<1>8. P(c)
  <2> HIDE DEF P
  <2> QED
    BY <1>6, <1>7
<1>9. PICK d \in 0 .. n - 1 : Start(n, row, c) <= c * len(d)
  BY <1>8
<1>10. len(d) \in Nat /\ c * len(d) <= (n - 1) * len(d) /\ c * len(d) \in Nat
  <2>1. len(d) \in Nat
    BY <1>1
  <2>2. c * len(d) <= (n - 1) * len(d)
    BY <1>0, <1>7, <2>1, Products
  <2> QED
    BY <1>7, <2>1, <2>2, Products
<1>11. (n - 1) * len(d) < OffsetLimit /\ OffsetLimit \in Nat
  <2>1. row[d] \in Value
    BY <1>0
  <2> QED
    BY <2>1, OffsetAssumption DEF n, len
<1>12. (n - 1) * len(d) \in Nat
  BY <1>0, <1>10
<1> QED
  BY <1>8, <1>9, <1>10, <1>11, <1>12 DEF n

\* The cast keeps an offset that fits.
LEMMA Int16Keeps ==
    ASSUME NEW x \in 0 .. OffsetLimit - 1
    PROVE  Int16(x) = x
<1> DEFINE k == x + OffsetLimit
           d == 2 * OffsetLimit
<1>1. OffsetLimit \in Nat \ {0}
  BY OffsetAssumption
<1>2. k \in Nat /\ d \in Nat \ {0} /\ k < d
  BY <1>1
<1> HIDE DEF k, d
<1>3. k % d = k
  BY <1>2
<1>4. Int16(x) = (k % d) - OffsetLimit
  BY DEF Int16, Signed, k, d
<1> QED
  BY <1>1, <1>3, <1>4 DEF k

\* A row read where its text begins: set_offset finds its end and its columns.
RowRead(t, row, text) ==
    /\ text # <<>> /\ EndsInTime(t, text)
    /\ RowEnd(t, text) = Len(Line(ColumnNum[t], row))
    /\ \A c \in ColumnsOf(t) :
        CStr(text, IF c = KeyColumn THEN 0 ELSE Offsets(t, text)[c]) = row[c]

LineBytes(n, row) ==
    /\ Line(n, row) \in Seq(Nat)
    /\ Joined(n, Cols(n, row)) \in Seq(Nat)
    /\ Line(n, row) = Joined(n, Cols(n, row)) \o <<Newline>>
    /\ Len(Line(n, row)) = Start(n, row, n) + 1 /\ Start(n, row, n) \in Nat

\* A line is its columns and a newline.
LEMMA LineIs ==
    ASSUME NEW n \in Nat, NEW row \in [0 .. n - 1 -> Value]
    PROVE  LineBytes(n, row)
<1> DEFINE a == Joined(n, Cols(n, row))
           z == <<Newline>>
<1>1. a \in Seq(Nat)
  <2>1. \A i \in 1 .. n : Cols(n, row)[i] \in Seq(Nat)
    BY ColsAre DEF ColumnText
  <2> QED
    BY <2>1, JoinedIs
<1>2. Line(n, row) = a \o z
  BY DEF Line, Cols
<1>3. z \in Seq(Nat) /\ Len(z) = 1
  BY DEF Newline
<1> HIDE DEF a, z
<1>4. Spliced(a \o z, a, z)
  BY <1>1, <1>3, SpliceIs
<1>5. Len(a) \in Nat
  BY <1>1, LenProperties
<1> QED
  BY <1>1, <1>2, <1>3, <1>4, <1>5 DEF a, z, LineBytes, Start, Spliced

\* From a line, whatever follows it, set_offset and strlen read its columns and
\* its end.
LEMMA LineRead ==
    ASSUME NEW t \in Table, NEW row \in [ColumnsOf(t) -> Value], NEW rest \in Seq(Nat),
           NEW text, text = Line(ColumnNum[t], row) \o rest
    PROVE  RowRead(t, row, text)
<1> DEFINE n == ColumnNum[t]
           a == Joined(n, Cols(n, row))
           z == <<Newline>>
           b == z \o rest
           line == Line(n, row)
<1>0. n \in Nat /\ n # 0 /\ n - 1 \in Nat /\ ColumnsOf(t) = 0 .. n - 1 /\ (n - 1) + 1 = n
      /\ 0 \in 0 .. n - 1 /\ n - 1 \in 0 .. n - 1
  BY TableAssumption DEF ColumnsOf
<1> HIDE DEF n
<1>1. LineBytes(n, row)
  BY <1>0, LineIs
<1>2. a \in Seq(Nat) /\ line = a \o z /\ line \in Seq(Nat) /\ Len(line) = Len(a) + 1
      /\ Len(a) \in Nat
  BY <1>1 DEF LineBytes, Start
<1>3. z \in Seq(Nat) /\ Len(z) = 1 /\ z[1] = Newline
  BY DEF Newline
<1> HIDE DEF z
<1>4. Spliced(b, z, rest)
  BY <1>3, SpliceIs
<1>5. text = a \o b
  <2>1. text = line \o rest
    BY DEF n, line
  <2> HIDE DEF a, line, b
  <2>2. Regrouped(a, z, rest)
    BY <1>2, <1>3, Regroup
  <2> QED
    BY <1>2, <2>1, <2>2, Zenon DEF Regrouped, b
<1> HIDE DEF b
<1>6. Spliced(a \o b, a, b)
  <2> HIDE DEF a
  <2> QED
    BY <1>2, <1>4, SpliceIs DEF Spliced
<1>7. text[Len(a) + 1] = Newline /\ Len(a) < Len(text) /\ text \in Seq(Nat)
  <2> HIDE DEF a
  <2>1. Len(rest) \in Nat
    BY LenProperties
  <2>2. 1 \in 1 .. Len(z) /\ 1 \in 1 .. Len(b) /\ Len(b) = Len(z) + Len(rest)
    BY <1>3, <1>4, <2>1 DEF Spliced
  <2>3. b[1] = Newline
    BY <1>3, <1>4, <2>2 DEF Spliced
  <2>4. (a \o b)[Len(a) + 1] = Newline
    BY <1>6, <2>2, <2>3 DEF Spliced
  <2>5. Len(a) < Len(a \o b) /\ a \o b \in Seq(Nat)
    BY <1>2, <1>3, <1>6, <2>1, <2>2 DEF Spliced
  <2> QED
    BY <1>5, <2>4, <2>5, Zenon
<1>8. Ends(t, text) = [c \in ColumnsOf(t) |-> Start(n, row, c + 1)]
  <2>1. b \in Seq(Nat)
    BY <1>4 DEF Spliced
  <2> QED
    BY <1>5, <2>1, EndsAre DEF n
<1>9. LastEnd(t, text) = Len(a)
  <2>1. LastEnd(t, text) = Ends(t, text)[n - 1]
    BY DEF LastEnd, n
  <2> QED
    BY <1>0, <1>8, <2>1 DEF Start
<1>10. EndsInTime(t, text) /\ RowEnd(t, text) = Len(line) /\ text # <<>>
  <2> HIDE DEF a
  <2>1. text # <<>>
    BY <1>2, <1>7, EmptySeq
  <2> QED
    BY <1>2, <1>7, <1>9, <2>1 DEF EndsInTime, RowEnd
<1>11. ASSUME NEW c \in ColumnsOf(t)
       PROVE  CStr(text, IF c = KeyColumn THEN 0 ELSE Offsets(t, text)[c]) = row[c]
  <2> DEFINE at == IF c = KeyColumn THEN 0 ELSE Offsets(t, text)[c]
  <2>1. Start(n, row, c) \in 0 .. OffsetLimit - 1
    BY StartFits DEF n
  <2>2. at = Start(n, row, c)
    <3>1. CASE c = 0
      <4>1. \A i \in 1 .. 0 : Cols(n, row)[i] \in Seq(Nat)
        OBVIOUS
      <4>2. Joined(0, Cols(n, row)) = <<>>
        BY <4>1, JoinedIs
      <4>3. Start(n, row, 0) = 0
        BY <4>2, EmptySeq DEF Start
      <4> QED
        BY <3>1, <4>3 DEF KeyColumn
    <3>2. CASE c # 0
      <4>1. c \in 1 .. ColumnNum[t] - 1 /\ c - 1 \in ColumnsOf(t) /\ c - 1 + 1 = c
        BY <1>0, <3>2 DEF n
      <4>2. Offsets(t, text)[c] = Int16(Ends(t, text)[c - 1])
        BY <4>1 DEF Offsets
      <4>3. Ends(t, text)[c - 1] = Start(n, row, c)
        BY <1>8, <4>1
      <4>4. Offsets(t, text)[c] = Start(n, row, c)
        BY <2>1, <4>2, <4>3, Int16Keeps
      <4> QED
        BY <3>2, <4>4 DEF KeyColumn
    <3> QED
      BY <3>1, <3>2
  <2> HIDE DEF at
  <2>3. ColumnPlace(n, row, b, c)
    <3>1. b \in Seq(Nat)
      BY <1>4 DEF Spliced
    <3> QED
      BY <1>0, <3>1, ColumnsPlaced
  <2>4. row[c] \in Seq(Char) /\ Start(n, row, c) \in Nat
    BY <2>1, CharAssumption, OffsetAssumption DEF Char
  <2>5. StringAt(text, Start(n, row, c), row[c])
    BY <1>5, <2>3 DEF ColumnPlace
  <2>6. CStr(text, Start(n, row, c)) = row[c]
    BY <1>7, <2>4, <2>5, StringThere
  <2>7. CStr(text, at) = row[c]
    BY <2>2, <2>6
  <2> QED
    BY <2>7 DEF at
<1> QED
  BY <1>10, <1>11 DEF RowRead, line, n

-----------------------------------------------------------------------------
(* What is at a place of a file                                            *)

\* A row with a column too many is not accepted.
LEMMA MalformedRead ==
    ASSUME NEW t \in Table
    PROVE  Malformed(t) \in Seq(Nat) /\ Malformed(t) # <<>> /\ ~EndsInTime(t, Malformed(t))
<1> DEFINE n == ColumnNum[t]
           more == [c \in 0 .. n |-> Empty]
           row == [c \in 0 .. n - 1 |-> Empty]
           cols == Cols(n + 1, more)
           a == Joined(n, cols)
           b == cols[n + 1]
           z == <<Newline>>
           text == Malformed(t)
<1>0. n \in Nat /\ n # 0 /\ n - 1 \in Nat /\ ColumnsOf(t) = 0 .. n - 1 /\ (n - 1) + 1 = n
      /\ (n + 1) - 1 = n /\ n + 1 \in Nat /\ n \in 0 .. (n + 1) - 1
      /\ n + 1 \in 1 .. n + 1 /\ n + 1 <= n + 1
  BY TableAssumption DEF ColumnsOf
<1>1. row \in [0 .. n - 1 -> Value] /\ more \in [0 .. (n + 1) - 1 -> Value]
  BY <1>0, CharAssumption
<1>2. text = Line(n + 1, more)
  BY DEF Malformed
<1> HIDE DEF n, text
<1>3. LineBytes(n + 1, more)
  <2> HIDE DEF more
  <2> QED
    BY <1>0, <1>1, LineIs
<1>4. text = Joined(n + 1, cols) \o z /\ text \in Seq(Nat) /\ text # <<>>
  <2> DEFINE s == Start(n + 1, more, n + 1)
  <2>0. /\ text \in Seq(Nat) /\ text = Joined(n + 1, cols) \o z
        /\ Len(text) = s + 1 /\ s \in Nat
    BY <1>2, <1>3, Zenon DEF LineBytes
  <2> HIDE DEF s, z, cols
  <2>1. text = Joined(n + 1, cols) \o z /\ text \in Seq(Nat) /\ Len(text) > 0
    BY <2>0
  <2>2. Len(<<>>) = 0
    OBVIOUS
  <2> QED
    BY <2>1, <2>2
<1>5. \A i \in 1 .. n + 1 : cols[i] \in Seq(Nat)
  <2> HIDE DEF more
  <2> QED
    BY <1>0, <1>1, ColsAre DEF ColumnText
<1>6. JoinedBy(Nat, cols, n)
  <2> HIDE DEF cols
  <2> QED
    BY <1>0, <1>5, JoinedNext
<1>7. a \in Seq(Nat) /\ b \in Seq(Nat) /\ Joined(n + 1, cols) = a \o b
  BY <1>6 DEF JoinedBy
<1>8. z \in Seq(Nat)
  BY DEF Newline
<1>9. a = Joined(n, Cols(n, row))
  <2>1. \A i \in 1 .. n : cols[i] \in Seq(Nat) /\ Cols(n, row)[i] = cols[i]
    <3>1. \A i \in 1 .. n : i \in 1 .. n + 1
      BY <1>0
    <3>2. \A i \in 1 .. n : i - 1 \in 0 .. n - 1 /\ i - 1 \in 0 .. n
      BY <1>0
    <3> QED
      BY <1>5, <3>1, <3>2 DEF Cols
  <2> HIDE DEF cols, row
  <2>2. JoinedAlike(n, Cols(n, row), cols)
    BY <1>0, <2>1, JoinedSame
  <2>3. n \in 0 .. n
    BY <1>0
  <2> QED
    BY <2>2, <2>3 DEF JoinedAlike
<1>10. text = Joined(n, Cols(n, row)) \o (b \o z)
  <2> HIDE DEF a, b, cols, row, z
  <2>1. Regrouped(a, b, z)
    BY <1>7, <1>8, Regroup
  <2> QED
    BY <1>4, <1>7, <1>9, <2>1, Zenon DEF Regrouped
<1>11. b \o z \in Seq(Nat)
  <2> HIDE DEF b, z
  <2> QED
    BY <1>7, <1>8, ConcatProperties
<1>12. LastEnd(t, text) = Len(a)
  <2>1. row \in [ColumnsOf(t) -> Value]
    BY <1>0, <1>1
  <2> HIDE DEF row
  <2>2. Ends(t, text) = [c \in ColumnsOf(t) |-> Start(n, row, c + 1)]
    BY <1>10, <1>11, <2>1, EndsAre DEF n
  <2>3. LastEnd(t, text) = Start(n, row, n)
    BY <1>0, <2>2 DEF LastEnd, n
  <2> QED
    BY <1>9, <2>3 DEF Start
<1>13. ColumnPlace(n + 1, more, z, n)
  <2> HIDE DEF more, z
  <2> QED
    BY <1>0, <1>1, <1>8, ColumnsPlaced
<1>14. text[Len(a) + 1] = Nul
  <2>1. StringAt(text, Len(a), Empty)
    BY <1>0, <1>4, <1>13 DEF ColumnPlace, Start
  <2>2. Len(Empty) = 0
    BY DEF Empty
  <2>3. Len(a) \in Nat
    <3> HIDE DEF a
    <3> QED
      BY <1>7, LenProperties
  <2> QED
    BY <2>1, <2>2, <2>3 DEF StringAt
<1>15. ~EndsInTime(t, text)
  BY <1>12, <1>14 DEF EndsInTime, Nul, Newline
<1> QED
  BY <1>4, <1>15 DEF text

\* What is left of a file after its first bytes.
LEMMA FromIs ==
    ASSUME NEW t, NEW a \in Seq(Nat), NEW b \in Seq(Nat), file[t] = a \o b
    PROVE  From(t, Len(a)) = b
<1> DEFINE x == file[t]
           u == SubSeq(x, Len(a) + 1, Len(x))
<1>0. Len(a) \in Nat /\ Len(b) \in Nat
  BY LenProperties
<1>1. Spliced(x, a, b)
  <2>1. Spliced(a \o b, a, b)
    BY SpliceIs
  <2> QED
    BY <2>1
<1> HIDE DEF x
<1>2. Len(x) = Len(a) + Len(b)
  BY <1>1 DEF Spliced
<1>3. \A i \in Len(a) + 1 .. Len(x) : x[i] \in Nat
  <2> SUFFICES ASSUME NEW i \in Len(a) + 1 .. Len(x) PROVE x[i] \in Nat
    OBVIOUS
  <2>1. i \in 1 .. Len(x) /\ x \in Seq(Nat)
    BY <1>0, <1>1, <1>2 DEF Spliced
  <2> QED
    BY <2>1, ElementOfSeq
<1>4. /\ u \in Seq(Nat)
      /\ Len(u) = IF Len(a) + 1 <= Len(x) THEN Len(x) - (Len(a) + 1) + 1 ELSE 0
      /\ \A i \in 1 .. Len(x) - (Len(a) + 1) + 1 : u[i] = x[Len(a) + 1 + i - 1]
  <2>1. Len(a) + 1 \in Int /\ Len(x) \in Int
    BY <1>0, <1>2
  <2> QED
    BY <1>3, <2>1, SubSeqProperties
<1> HIDE DEF u
<1>5. Len(u) = Len(b)
  BY <1>0, <1>2, <1>4
<1>6. \A i \in 1 .. Len(u) : u[i] = b[i]
  <2> SUFFICES ASSUME NEW i \in 1 .. Len(b) PROVE u[i] = b[i]
    BY <1>5
  <2>1. i \in 1 .. Len(x) - (Len(a) + 1) + 1 /\ Len(a) + 1 + i - 1 = Len(a) + i
    BY <1>0, <1>2
  <2> QED
    BY <1>1, <1>4, <2>1 DEF Spliced
<1>7. u = b
  BY <1>4, <1>5, <1>6, SeqEqual
<1> QED
  BY <1>7 DEF u, x, From

-----------------------------------------------------------------------------
(* The walk over a file                                                    *)

\* The lines of rows R of a table, in their order, and where each one starts.
Lines(t, R, content) ==
    [i \in 1 .. Cardinality(R) |-> Line(ColumnNum[t], content[Ascending(R)[i]])]
LineStart(t, R, content, i) == Len(Joined(i, Lines(t, R, content)))

Contents(t, R, content) == R \subseteq Row /\ \A r \in R : content[r] \in [ColumnsOf(t) -> Value]

LinesOf(t, R, content) ==
    LET N == Cardinality(R) IN
    /\ N \in Nat /\ IsFiniteSet(R) /\ R \subseteq Int
    /\ Ascending(R) \in [1 .. N -> R]
    /\ \A i \in 1 .. N : /\ Lines(t, R, content)[i] = Line(ColumnNum[t], content[Ascending(R)[i]])
                         /\ Lines(t, R, content)[i] \in Seq(Nat)
    /\ Printed(t, R, content) = Joined(N, Lines(t, R, content))
    /\ Printed(t, R, content) \in Seq(Nat)

\* The lines of a table and what is printed of them are texts.
LEMMA LinesAre ==
    ASSUME NEW t \in Table, NEW R, NEW content, Contents(t, R, content)
    PROVE  LinesOf(t, R, content)
<1> DEFINE N == Cardinality(R)
           lines == Lines(t, R, content)
<1>1. IsFiniteSet(R) /\ R \subseteq Int
  <2>1. R \in SUBSET Row /\ IsFiniteSet(Row) /\ Row \subseteq Nat
    BY RowAssumption DEF Contents
  <2>2. IsFiniteSet(R)
    BY <2>1, FS_Subset
  <2> QED
    BY <2>1, <2>2
<1>2. N \in Nat /\ Ascending(R) \in [1 .. N -> R]
  BY <1>1, AscendingIs
<1>3. ColumnNum[t] \in Nat /\ ColumnsOf(t) = 0 .. ColumnNum[t] - 1
  BY TableAssumption DEF ColumnsOf
<1>4. ASSUME NEW i \in 1 .. N
      PROVE  lines[i] = Line(ColumnNum[t], content[Ascending(R)[i]]) /\ lines[i] \in Seq(Nat)
  <2>1. lines[i] = Line(ColumnNum[t], content[Ascending(R)[i]])
    BY DEF Lines
  <2>2. content[Ascending(R)[i]] \in [0 .. ColumnNum[t] - 1 -> Value]
    BY <1>2, <1>3 DEF Contents
  <2>3. LineBytes(ColumnNum[t], content[Ascending(R)[i]])
    BY <1>3, <2>2, LineIs
  <2> QED
    BY <2>1, <2>3 DEF LineBytes
<1>5. Printed(t, R, content) = Joined(N, lines)
  <2>1. DOMAIN Ascending(R) = 1 .. N
    BY <1>2
  <2> QED
    BY <2>1 DEF Printed, Lines
<1>6. Joined(N, lines) \in Seq(Nat)
  <2> HIDE DEF lines
  <2>1. \A i \in 1 .. N : lines[i] \in Seq(Nat)
    BY <1>4
  <2> QED
    BY <1>2, <2>1, JoinedIs
<1> QED
  BY <1>1, <1>2, <1>4, <1>5, <1>6 DEF LinesOf

\* A table's file has the lines of its rows and something after them.
Holds(t, R, content, tail) ==
    tail \in Seq(Nat) /\ file[t] = Printed(t, R, content) \o tail

\* At the place of a line there is the line.
TextThere(t, at, row) ==
    \E rest \in Seq(Nat) : From(t, at) = Line(ColumnNum[t], row) \o rest

\* In a file every line is at the end of those before it.
LEMMA LineFound ==
    ASSUME NEW t \in Table, NEW R, NEW content, Contents(t, R, content),
           NEW tail, Holds(t, R, content, tail), NEW i \in 1 .. Cardinality(R)
    PROVE  TextThere(t, LineStart(t, R, content, i - 1), content[Ascending(R)[i]])
<1> DEFINE N == Cardinality(R)
           lines == Lines(t, R, content)
           a == Joined(i - 1, lines)
           p == Joined(i, lines)
           w == Joined(N, lines)
           line == lines[i]
<1>1. LinesOf(t, R, content)
  BY LinesAre
<1>2. /\ N \in Nat /\ i \in 0 .. N /\ i - 1 \in Nat /\ (i - 1) + 1 = i /\ (i - 1) + 1 <= N
      /\ \A j \in 1 .. N : lines[j] \in Seq(Nat)
  BY <1>1 DEF LinesOf
<1>3. line = Line(ColumnNum[t], content[Ascending(R)[i]]) /\ file[t] = w \o tail
  BY <1>1 DEF LinesOf, Holds
<1>4. JoinedBy(Nat, lines, i - 1)
  <2> HIDE DEF lines, N
  <2> QED
    BY <1>2, JoinedNext
<1>5. BeginsWith(Nat, w, p)
  <2> HIDE DEF lines, N
  <2> QED
    BY <1>2, JoinedBegins
<1>6. a \in Seq(Nat) /\ line \in Seq(Nat) /\ p \in Seq(Nat) /\ p = a \o line
  BY <1>2, <1>4 DEF JoinedBy
<1> HIDE DEF a, p, w, line
<1>7. PICK r \in Seq(Nat) : w = p \o r
  BY <1>5 DEF BeginsWith
<1>8. tail \in Seq(Nat)
  BY DEF Holds
<1>9. r \o tail \in Seq(Nat)
  BY <1>8, ConcatProperties
<1>10. line \o (r \o tail) \in Seq(Nat)
  BY <1>6, <1>9, ConcatProperties
<1>11. file[t] = a \o (line \o (r \o tail))
  <2>1. Regrouped(p, r, tail)
    BY <1>6, <1>8, Regroup
  <2>2. Regrouped(a, line, r \o tail)
    BY <1>6, <1>9, Regroup
  <2> QED
    BY <1>3, <1>6, <1>7, <2>1, <2>2, Zenon DEF Regrouped
<1>12. From(t, Len(a)) = line \o (r \o tail)
  <2> DEFINE b == line \o (r \o tail)
  <2> HIDE DEF b
  <2>1. b \in Seq(Nat) /\ file[t] = a \o b
    BY <1>10, <1>11 DEF b
  <2>2. From(t, Len(a)) = b
    BY <1>6, <2>1, FromIs
  <2> QED
    BY <2>2 DEF b
<1> QED
  BY <1>3, <1>9, <1>12 DEF TextThere, LineStart, a

\* After the last line there is the rest.
LEMMA RestFound ==
    ASSUME NEW t \in Table, NEW R, NEW content, Contents(t, R, content),
           NEW tail, Holds(t, R, content, tail)
    PROVE  From(t, LineStart(t, R, content, Cardinality(R))) = tail
<1> DEFINE w == Joined(Cardinality(R), Lines(t, R, content))
<1>1. LinesOf(t, R, content)
  BY LinesAre
<1>2. w \in Seq(Nat) /\ tail \in Seq(Nat) /\ file[t] = w \o tail
  BY <1>1 DEF LinesOf, Holds
<1> HIDE DEF w
<1>3. From(t, Len(w)) = tail
  BY <1>2, FromIs
<1> QED
  BY <1>3 DEF w, LineStart

\* The walk finds every line where it starts.
StartsFound(t, R, content) ==
    Starts(t) = [i \in 0 .. Cardinality(R) |-> LineStart(t, R, content, i)]

\* The rows of a file start where its lines do.
LEMMA StartsAre ==
    ASSUME NEW t \in Table, NEW R, R = RowsOf(t) \intersect base,
           NEW content, Contents(t, R, content), NEW tail, Holds(t, R, content, tail)
    PROVE  StartsFound(t, R, content)
<1> DEFINE N == Cardinality(R)
           lines == Lines(t, R, content)
           Walk(f) == f = [i \in 0 .. N |->
                IF i = 0 THEN 0 ELSE f[i - 1] + RowEnd(t, From(t, f[i - 1]))]
           g == [i \in 0 .. N |-> LineStart(t, R, content, i)]
<1>0. LinesOf(t, R, content)
  BY LinesAre
<1>1. N \in Nat /\ \A j \in 1 .. N : lines[j] \in Seq(Nat)
  BY <1>0 DEF LinesOf
<1>2. LineStart(t, R, content, 0) = 0
  <2>1. Joined(0, lines) = <<>>
    <3> HIDE DEF lines, N
    <3>1. \A j \in 1 .. 0 : lines[j] \in Seq(Nat)
      OBVIOUS
    <3> QED
      BY <3>1, JoinedIs
  <2> QED
    BY <2>1, EmptySeq DEF LineStart
<1>3. ASSUME NEW i \in 1 .. N
      PROVE  LineStart(t, R, content, i) = LineStart(t, R, content, i - 1)
                + RowEnd(t, From(t, LineStart(t, R, content, i - 1)))
  <2> DEFINE row == content[Ascending(R)[i]]
             at == LineStart(t, R, content, i - 1)
  <2>1. TextThere(t, at, row)
    BY LineFound
  <2>2. row \in [ColumnsOf(t) -> Value]
    BY <1>0 DEF LinesOf, Contents
  <2>3. lines[i] = Line(ColumnNum[t], row)
    BY <1>0 DEF LinesOf
  <2>4. JoinedBy(Nat, lines, i - 1) /\ (i - 1) + 1 = i
    <3> HIDE DEF lines, N
    <3>1. i - 1 \in Nat /\ (i - 1) + 1 <= N /\ (i - 1) + 1 = i
      BY <1>1
    <3> QED
      BY <1>1, <3>1, JoinedNext
  <2>5. LineStart(t, R, content, i) = at + Len(lines[i])
    BY <2>4 DEF JoinedBy, LineStart
  <2> HIDE DEF row, at
  <2>6. PICK rest \in Seq(Nat) : From(t, at) = Line(ColumnNum[t], row) \o rest
    BY <2>1 DEF TextThere
  <2>7. RowRead(t, row, From(t, at))
    BY <2>2, <2>6, LineRead
  <2>8. LineStart(t, R, content, i) = at + RowEnd(t, From(t, at))
    BY <2>3, <2>5, <2>7 DEF RowRead
  <2> QED
    BY <2>8 DEF at
<1>4. Starts(t) = CHOOSE f : Walk(f)
  BY DEF Starts
<1> HIDE DEF N
<1>5. \A i \in 0 .. N : i = 0 \/ (i # 0 /\ i \in 1 .. N /\ i - 1 \in 0 .. N)
  BY <1>1
<1>6. \A i \in 0 .. N : g[i] = IF i = 0 THEN 0 ELSE g[i - 1] + RowEnd(t, From(t, g[i - 1]))
  BY <1>2, <1>3, <1>5
<1>7. g = [i \in 0 .. N |-> g[i]]
  OBVIOUS
<1> HIDE DEF g
<1>8. Walk(g)
  BY <1>6, <1>7
<1>9. ASSUME NEW f, Walk(f) PROVE f = g
  <2>1. \A i \in 0 .. N : f[i] = IF i = 0 THEN 0 ELSE f[i - 1] + RowEnd(t, From(t, f[i - 1]))
    BY <1>9
  <2>2. f = [i \in 0 .. N |-> f[i]]
    BY <1>9
  <2>3. f[0] = g[0]
    BY <1>1, <1>6, <2>1
  <2>4. \A m \in 1 .. N : f[m - 1] = g[m - 1] => f[m] = g[m]
    <3> SUFFICES ASSUME NEW m \in 1 .. N, f[m - 1] = g[m - 1] PROVE f[m] = g[m]
      OBVIOUS
    <3>1. m \in 0 .. N /\ m # 0
      BY <1>1
    <3> QED
      BY <1>6, <2>1, <3>1
  <2> HIDE DEF Walk
  <2>5. Alike(N, f, g)
    BY <1>1, <2>3, <2>4, StepAlike
  <2> QED
    BY <1>7, <2>2, <2>5 DEF Alike
<1> HIDE DEF Walk
<1>10. Starts(t) = g
  BY <1>4, <1>8, <1>9
<1> QED
  BY <1>10 DEF g, N, StartsFound

\* The rows of a file are at their places, with their text.
RowText(r, row) == \E rest \in Seq(Nat) : TextOf(r) = Line(ColumnNum[Home[r]], row) \o rest

Walked(t, R, content, tail) ==
    LET N == Cardinality(R) IN
    /\ N \in Nat /\ DOMAIN Starts(t) = 0 .. N
    /\ \A i \in 0 .. N - 1 : Accepted(t, i)
    /\ Accepted(t, N) <=> (tail # <<>> => EndsInTime(t, tail))
    /\ \A r \in R : Place(r) \in 0 .. N - 1 /\ RowText(r, content[r])

\* The walk accepts the line of every row, at its place, and fails at the rest alone.
LEMMA WalkIs ==
    ASSUME NEW t \in Table, NEW R, R = RowsOf(t) \intersect base,
           NEW content, Contents(t, R, content), NEW tail, Holds(t, R, content, tail)
    PROVE  Walked(t, R, content, tail)
<1> DEFINE N == Cardinality(R)
           order == Ascending(R)
<1>0. LinesOf(t, R, content)
  BY LinesAre
<1>1. N \in Nat /\ order \in [1 .. N -> R] /\ IsFiniteSet(R) /\ R \subseteq Int
  BY <1>0 DEF LinesOf
<1>2. Starts(t) = [i \in 0 .. N |-> LineStart(t, R, content, i)]
  <2>1. StartsFound(t, R, content)
    BY StartsAre
  <2> QED
    BY <2>1 DEF StartsFound
<1>8. /\ \A x \in R : \E k \in 1 .. N : order[k] = x
      /\ \A k \in 1 .. N : Cardinality({y \in R : y < order[k]}) = k - 1
  <2>1. AscendsThrough(R)
    BY <1>1, AscendingThrough
  <2> QED
    BY <2>1 DEF AscendsThrough
<1> HIDE DEF N, order
<1>3. ASSUME NEW i \in 1 .. N
      PROVE  TextThere(t, Starts(t)[i - 1], content[order[i]])
  <2>1. i - 1 \in 0 .. N
    BY <1>1
  <2>2. TextThere(t, LineStart(t, R, content, i - 1), content[order[i]])
    BY LineFound DEF N, order
  <2> QED
    BY <1>2, <2>1, <2>2
<1>4. ASSUME NEW i \in 0 .. N - 1 PROVE Accepted(t, i)
  <2>1. i + 1 \in 1 .. N /\ (i + 1) - 1 = i
    BY <1>1
  <2>2. TextThere(t, Starts(t)[i], content[order[i + 1]])
    BY <1>3, <2>1
  <2> DEFINE row == content[order[i + 1]]
             text == From(t, Starts(t)[i])
  <2>3. row \in [ColumnsOf(t) -> Value]
    BY <1>1, <2>1 DEF Contents
  <2>4. PICK rest \in Seq(Nat) : text = Line(ColumnNum[t], row) \o rest
    BY <2>2 DEF TextThere
  <2> HIDE DEF row, text
  <2>5. RowRead(t, row, text)
    BY <2>3, <2>4, LineRead
  <2> QED
    BY <2>5 DEF RowRead, Accepted, text
<1>5. Accepted(t, N) <=> (tail # <<>> => EndsInTime(t, tail))
  <2>1. From(t, LineStart(t, R, content, N)) = tail
    BY RestFound DEF N
  <2>2. N \in 0 .. N
    BY <1>1
  <2>3. From(t, Starts(t)[N]) = tail
    BY <1>2, <2>1, <2>2
  <2> QED
    BY <2>3 DEF Accepted
<1>6. ASSUME NEW r \in R PROVE Place(r) \in 0 .. N - 1 /\ RowText(r, content[r])
  <2>2. PICK k \in 1 .. N : order[k] = r
    BY <1>8
  <2>3. Home[r] = t
    BY DEF RowsOf
  <2>4. Place(r) = k - 1
    <3>1. {x \in RowsOf(Home[r]) \intersect base : x < r} = {y \in R : y < order[k]}
      BY <2>2, <2>3
    <3> QED
      BY <1>8, <3>1 DEF Place
  <2>5. TextThere(t, Starts(t)[k - 1], content[r])
    BY <1>3, <2>2
  <2>6. RowText(r, content[r])
    BY <2>3, <2>4, <2>5 DEF TextThere, TextOf, RowText
  <2> QED
    BY <1>1, <2>4, <2>6
<1>7. DOMAIN Starts(t) = 0 .. N
  BY <1>2
<1> QED
  BY <1>1, <1>4, <1>5, <1>6, <1>7 DEF Walked, N

-----------------------------------------------------------------------------
(* What is in memory                                                       *)

\* The bytes from row_data_ on have a row of the table t, and the offsets are its.
Bytes(t, text, off, row) ==
    /\ row \in [ColumnsOf(t) -> Value]
    /\ \E rest \in Seq(Nat) : text = Line(ColumnNum[t], row) \o rest
    /\ off = Offsets(t, text)

\* Its columns are read from them.
LEMMA BytesRead ==
    ASSUME NEW r \in Row, NEW row, buf[r] # None, Bytes(Home[r], buf[r], offset[r], row)
    PROVE  [c \in ColumnsOf(Home[r]) |-> Column(r, c)] = row
<1> DEFINE t == Home[r]
           text == buf[r]
<1>1. t \in Table /\ row \in [ColumnsOf(t) -> Value] /\ offset[r] = Offsets(t, text)
  BY RowAssumption DEF Bytes
<1>2. PICK rest \in Seq(Nat) : text = Line(ColumnNum[t], row) \o rest
  BY DEF Bytes
<1>3. RowRead(t, row, text)
  <2> HIDE DEF t, text
  <2> QED
    BY <1>1, <1>2, LineRead
<1>4. \A c \in ColumnsOf(t) : Column(r, c) = row[c]
  <2> SUFFICES ASSUME NEW c \in ColumnsOf(t) PROVE Column(r, c) = row[c]
    OBVIOUS
  <2>1. CStr(text, IF c = KeyColumn THEN 0 ELSE Offsets(t, text)[c]) = row[c]
    BY <1>3 DEF RowRead
  <2> QED
    BY <1>1, <2>1 DEF Column, ColumnAt
<1> QED
  BY <1>1, <1>4

-----------------------------------------------------------------------------
(* The invariant                                                           *)

\* An entry of a reverse list: a foreign key of a row in use.
Entry == UNION {ForeignKeys(r) \X {r} : r \in base \union added}

\* Where the tables and rows are in their lives, and what the variables range over.
Shape ==
    /\ path \subseteq Table /\ hasData \subseteq path /\ hasRev \subseteq hasData
    /\ stuck \subseteq path \ hasData
    /\ base \subseteq Row /\ added \subseteq Row \ base
    /\ \A r \in base : Home[r] \in path
    /\ \A r \in added : Home[r] \in hasData \union stuck
    /\ DOMAIN rows = Row /\ DOMAIN file = Table
    /\ \A r \in Row : IF r \in base THEN rows[r] \in [ColumnsOf(Home[r]) -> Value]
                                    ELSE rows[r] = None
    /\ hash \in [Table -> [Value -> Row \union {None}]]
    /\ list \in [Row -> Seq(Entry)]
    /\ DOMAIN buf = Row /\ DOMAIN offset = Row /\ block \in [Row -> Int]
    /\ DOMAIN stat = Row

\* A file has the lines of its rows, and a malformed one at the end of a torn table.
FilesInv ==
    \A t \in path : \E tail \in {Empty, Malformed(t)} :
        /\ Holds(t, RowsOf(t) \intersect base, rows, tail)
        /\ tail # Empty => t \in Torn

\* The rows with bytes are rows in use of the tables init has come to, all those of
\* files among them, and their bytes and offsets are a row's.
BufInv ==
    \A r \in Row :
        /\ buf[r] # None =>
            /\ r \in base \union added /\ Home[r] \in hasData \union stuck
            /\ \E row : Bytes(Home[r], buf[r], offset[r], row)
        /\ r \in base /\ Home[r] \in hasData \union stuck => buf[r] # None

BlockInv == RowInBlock /\ \A r \in Row : block[r] > 0 => buf[r] # None

RInv == Shape /\ FilesInv /\ BufInv /\ BlockInv

\* The invariant implies the type invariant.
LEMMA InvTypes == RInv => TypeOK
<1> SUFFICES ASSUME RInv PROVE TypeOK
  OBVIOUS
<1> USE DEF RInv
<1>1. stuck \subseteq path \ hasData /\ hasRev \subseteq hasData /\ hasData \subseteq path
  BY DEF Shape
<1>2. ASSUME NEW r \in Row PROVE rows[r] # None <=> r \in base
  BY RowAssumption, CharAssumption DEF Shape
<1>3. ASSUME NEW r \in base, Home[r] \in hasData PROVE buf[r] # None
  BY <1>3 DEF BufInv, Shape
<1>4. ASSUME NEW r \in Row, buf[r] # None, NEW c \in ColumnsOf(Home[r])
      PROVE  Column(r, c) \in Value
  <2>1. PICK row : Bytes(Home[r], buf[r], offset[r], row)
    BY <1>4 DEF BufInv
  <2>2. row \in [ColumnsOf(Home[r]) -> Value]
    BY <2>1 DEF Bytes
  <2>3. [d \in ColumnsOf(Home[r]) |-> Column(r, d)] = row
    BY <1>4, <2>1, BytesRead
  <2> QED
    BY <2>2, <2>3
<1>5. ASSUME NEW r \in Row, NEW i \in DOMAIN list[r]
      PROVE  list[r][i] \in ForeignKeys(list[r][i][2]) \X (base \union added)
  <2>1. list[r] \in Seq(Entry)
    BY DEF Shape
  <2>2. list[r][i] \in Entry
    BY <2>1, LenProperties, ElementOfSeq
  <2> QED
    BY <2>2 DEF Entry
<1> QED
  BY <1>1, <1>2, <1>3, <1>4, <1>5 DEF TypeOK

\* The invariant holds before anything is loaded.
LEMMA InitInv == Init => RInv
<1> SUFFICES ASSUME Init PROVE RInv
  OBVIOUS
<1> USE DEF Init
<1>1. list \in [Row -> Seq(Entry)]
  BY EmptySeq
<1>2. hash \in [Table -> [Value -> Row \union {None}]]
  OBVIOUS
<1>3. block \in [Row -> Int]
  OBVIOUS
<1>4. Shape
  BY <1>1, <1>2, <1>3 DEF Shape
<1> QED
  BY <1>4 DEF RInv, FilesInv, BufInv, BlockInv, RowInBlock

-----------------------------------------------------------------------------
(* Lists                                                                   *)

\* The elements at some places of a list.
PickedFrom(A, seq, S) ==
    /\ Picked(seq, S) \in Seq(A)
    /\ ToSet(Picked(seq, S)) = {seq[i] : i \in S}

\* Picking places of a list gives a list of what is there.
LEMMA PickedIs ==
    ASSUME NEW A, NEW seq \in Seq(A), NEW S \in SUBSET DOMAIN seq
    PROVE  PickedFrom(A, seq, S)
<1> DEFINE n == Cardinality(S)
           place == Ascending(S)
           p == Picked(seq, S)
<1>1. DOMAIN seq = 1 .. Len(seq) /\ Len(seq) \in Nat /\ \A i \in DOMAIN seq : seq[i] \in A
  BY LenProperties, ElementOfSeq
<1>2. IsFiniteSet(S) /\ S \subseteq Int
  <2>1. IsFiniteSet(1 .. Len(seq))
    BY <1>1, FS_Interval
  <2> QED
    BY <1>1, <2>1, FS_Subset
<1>3. n \in Nat /\ place \in [1 .. n -> S]
  BY <1>2, AscendingIs
<1>4. AscendsThrough(S)
  BY <1>2, AscendingThrough
<1>5. p = [k \in 1 .. n |-> seq[place[k]]]
  BY DEF Picked
<1>6. \A x \in S : \E k \in 1 .. n : place[k] = x
  BY <1>4 DEF AscendsThrough
<1> HIDE DEF n, place, p
<1>7. p \in [1 .. n -> A]
  BY <1>1, <1>3, <1>5
<1>8. p \in Seq(A) /\ DOMAIN p = 1 .. n
  BY <1>3, <1>7, SeqDef
<1>9. {p[k] : k \in 1 .. n} = {seq[i] : i \in S}
  BY <1>3, <1>5, <1>6
<1> QED
  BY <1>8, <1>9 DEF PickedFrom, ToSet, p

\* The set of two lists joined.
LEMMA SetOfJoin ==
    ASSUME NEW A, NEW s \in Seq(A), NEW u \in Seq(A)
    PROVE  ToSet(s \o u) = ToSet(s) \union ToSet(u)
<1> DEFINE x == s \o u
<1>1. Len(s) \in Nat /\ Len(u) \in Nat /\ DOMAIN s = 1 .. Len(s) /\ DOMAIN u = 1 .. Len(u)
  BY LenProperties
<1>2. /\ x \in Seq(A) /\ Len(x) = Len(s) + Len(u)
      /\ \A i \in 1 .. Len(s) + Len(u) : x[i] = IF i <= Len(s) THEN s[i] ELSE u[i - Len(s)]
  BY ConcatProperties
<1> HIDE DEF x
<1>3. DOMAIN x = 1 .. Len(s) + Len(u)
  BY <1>2, LenProperties
<1>4. \A i \in 1 .. Len(s) : i \in DOMAIN x /\ x[i] = s[i]
  BY <1>1, <1>2, <1>3
<1>5. \A i \in 1 .. Len(u) : Len(s) + i \in DOMAIN x /\ x[Len(s) + i] = u[i]
  <2> SUFFICES ASSUME NEW i \in 1 .. Len(u)
               PROVE  Len(s) + i \in DOMAIN x /\ x[Len(s) + i] = u[i]
    OBVIOUS
  <2>1. /\ Len(s) + i \in 1 .. Len(s) + Len(u) /\ ~(Len(s) + i <= Len(s))
        /\ Len(s) + i - Len(s) = i
    BY <1>1
  <2> QED
    BY <1>2, <1>3, <2>1
<1>6. \A i \in DOMAIN x : x[i] \in ToSet(s) \union ToSet(u)
  <2> SUFFICES ASSUME NEW i \in DOMAIN x PROVE x[i] \in ToSet(s) \union ToSet(u)
    OBVIOUS
  <2>1. CASE i <= Len(s)
    <3>1. i \in 1 .. Len(s)
      BY <1>1, <1>3, <2>1
    <3> QED
      BY <1>1, <1>4, <3>1 DEF ToSet
  <2>2. CASE ~(i <= Len(s))
    <3>1. i - Len(s) \in 1 .. Len(u) /\ Len(s) + (i - Len(s)) = i
      BY <1>1, <1>3, <2>2
    <3>2. x[i] = u[i - Len(s)]
      BY <1>5, <3>1
    <3> QED
      BY <1>1, <3>1, <3>2 DEF ToSet
  <2> QED
    BY <2>1, <2>2
<1>7. ToSet(x) = ToSet(s) \union ToSet(u)
  BY <1>1, <1>4, <1>5, <1>6 DEF ToSet
<1> QED
  BY <1>7 DEF x

\* The set of a list with an element appended.
LEMMA SetOfAppend ==
    ASSUME NEW A, NEW s \in Seq(A), NEW e \in A
    PROVE  Append(s, e) \in Seq(A) /\ ToSet(Append(s, e)) = ToSet(s) \union {e}
<1> DEFINE z == <<e>>
<1>1. z \in Seq(A) /\ ToSet(z) = {e}
  <2>1. Len(z) = 1 /\ z[1] = e /\ DOMAIN z = {1}
    OBVIOUS
  <2> QED
    BY <2>1 DEF ToSet
<1>2. Append(s, e) = s \o z
  BY AppendIsConcat
<1>3. Append(s, e) \in Seq(A)
  BY AppendProperties
<1> HIDE DEF z
<1>4. ToSet(s \o z) = ToSet(s) \union ToSet(z)
  BY <1>1, SetOfJoin
<1> QED
  BY <1>1, <1>2, <1>3, <1>4

\* The references of some tables, which set_reverse_index comes to one by one: those
\* that are entered in a list are appended to it.
EnteredIn(E, lt) == Arranged(E, lt) \in Seq(E) /\ ToSet(Arranged(E, lt)) = E

\* Each of them is entered, and nothing else.
LEMMA ReferencesEntered ==
    ASSUME Shape, NEW T, NEW E \in SUBSET References(T)
    PROVE  EnteredIn(E, WalkOrder(T))
<1> DEFINE lt == WalkOrder(T)
           n == Cardinality(E)
<1>1. \A e \in References(T) : /\ e = <<e[1], e[2]>> /\ e[2] \in base /\ Home[e[2]] \in Table
                               /\ e[1] \in ColumnsOf(Home[e[2]]) /\ e[2] \in Int
                               /\ e[1] \in Int /\ Home[e[2]] \in Int
  <2> SUFFICES ASSUME NEW e \in References(T)
               PROVE  /\ e = <<e[1], e[2]>> /\ e[2] \in base /\ Home[e[2]] \in Table
                      /\ e[1] \in ColumnsOf(Home[e[2]]) /\ e[2] \in Int
                      /\ e[1] \in Int /\ Home[e[2]] \in Int
    OBVIOUS
  <2>1. PICK r \in base : e \in ForeignKeys(r) \X {r}
    BY DEF References
  <2>2. r \in Row /\ Home[r] \in Table /\ r \in Nat
    BY RowAssumption DEF Shape
  <2>3. e[1] \in ForeignKeys(r) /\ e[2] = r /\ e = <<e[1], e[2]>>
    BY <2>1
  <2>4. e[1] \in ColumnsOf(Home[r])
    BY <2>2, <2>3, ForeignAssumption DEF ForeignKeys
  <2>5. e[1] \in Int /\ Home[r] \in Int
    BY <2>2, <2>4, TableAssumption DEF ColumnsOf, Table
  <2> QED
    BY <2>1, <2>2, <2>3, <2>4, <2>5
<1>2. IsFiniteSet(E)
  <2>1. IsFiniteSet(base)
    BY RowAssumption, FS_Subset DEF Shape
  <2> DEFINE Parts == {ForeignKeys(r) \X {r} : r \in base}
  <2>2. IsFiniteSet(Parts)
    <3> DEFINE part == [r \in base |-> ForeignKeys(r) \X {r}]
    <3>1. part \in Surjection(base, Parts)
      BY DEF Surjection
    <3> HIDE DEF part, Parts
    <3> QED
      BY <2>1, <3>1, FS_Surjection
  <2>3. ASSUME NEW P \in Parts PROVE IsFiniteSet(P)
    <3>1. PICK r \in base : P = ForeignKeys(r) \X {r}
      OBVIOUS
    <3>2. Home[r] \in Table
      BY RowAssumption DEF Shape
    <3>3. IsFiniteSet(ColumnsOf(Home[r]))
      BY <3>2, TableAssumption, FS_Interval DEF ColumnsOf
    <3>4. ForeignKeys(r) \in SUBSET ColumnsOf(Home[r])
      BY <3>2, ForeignAssumption DEF ForeignKeys
    <3>5. IsFiniteSet(ForeignKeys(r))
      BY <3>3, <3>4, FS_Subset
    <3>6. IsFiniteSet({r})
      BY FS_Singleton
    <3> QED
      BY <3>1, <3>5, <3>6, FS_Product
  <2> HIDE DEF Parts
  <2>4. IsFiniteSet(UNION Parts)
    BY <2>2, <2>3, FS_UNION
  <2>5. E \in SUBSET UNION Parts
    BY DEF References, Parts
  <2> QED
    BY <2>4, <2>5, FS_Subset
<1>3. \A x, y \in E : <<x, y>> \in lt <=>
        \/ Home[x[2]] < Home[y[2]]
        \/ Home[x[2]] = Home[y[2]] /\ (x[2] < y[2] \/ (x[2] = y[2] /\ x[1] < y[1]))
  BY DEF WalkOrder
<1>4. StrictOrder(E, lt)
  <2> HIDE DEF lt
  <2>1. \A x \in E : <<x, x>> \notin lt
    BY <1>1, <1>3
  <2>2. \A x, y, z \in E : <<x, y>> \in lt /\ <<y, z>> \in lt => <<x, z>> \in lt
    <3> SUFFICES ASSUME NEW x \in E, NEW y \in E, NEW z \in E,
                        <<x, y>> \in lt, <<y, z>> \in lt
                 PROVE  <<x, z>> \in lt
      OBVIOUS
    <3>1. \A e \in E : e[1] \in Int /\ e[2] \in Int /\ Home[e[2]] \in Int
      BY <1>1
    <3> QED
      BY <1>3, <3>1
  <2>3. \A x, y \in E : x # y => <<x, y>> \in lt \/ <<y, x>> \in lt
    <3> SUFFICES ASSUME NEW x \in E, NEW y \in E, x # y
                 PROVE  <<x, y>> \in lt \/ <<y, x>> \in lt
      OBVIOUS
    <3>1. x[1] # y[1] \/ x[2] # y[2]
      BY <1>1
    <3>2. \A e \in E : e[1] \in Int /\ e[2] \in Int /\ Home[e[2]] \in Int
      BY <1>1
    <3> QED
      BY <1>3, <3>1, <3>2
  <2> QED
    BY <2>1, <2>2, <2>3 DEF StrictOrder
<1> HIDE DEF lt, n
<1>5. /\ n \in Nat /\ Arranged(E, lt) \in [1 .. n -> E]
      /\ \A x \in E : \E k \in 1 .. n : Arranged(E, lt)[k] = x
  BY <1>2, <1>4, ArrangedIs DEF n
<1> DEFINE a == Arranged(E, lt)
<1> HIDE DEF a
<1>6. a \in [1 .. n -> E] /\ n \in Nat /\ \A x \in E : \E k \in 1 .. n : a[k] = x
  BY <1>5 DEF a
<1>7. a \in Seq(E) /\ DOMAIN a = 1 .. n
  BY <1>6, SeqDef
<1>8. {a[k] : k \in 1 .. n} = E
  BY <1>6
<1> QED
  BY <1>7, <1>8 DEF EnteredIn, ToSet, a, lt

-----------------------------------------------------------------------------
(* Loading                                                                 *)

\* The walk over a table's file by the invariant: it fails only at the malformed row
\* of a torn table, after all its rows.
FileWalked(t) ==
    /\ Malforms(t) => t \in Torn
    /\ \A r \in base : Home[r] = t =>
        RowText(r, rows[r]) /\ \A i \in 0 .. Place(r) : Accepted(t, i)

\* Every file is walked so.
LEMMA FilesWalked ==
    ASSUME RInv, NEW t \in path
    PROVE  FileWalked(t)
<1> DEFINE R == RowsOf(t) \intersect base
           N == Cardinality(R)
<1>0. t \in Table
  BY DEF RInv, Shape
<1>1. PICK tail \in {Empty, Malformed(t)} :
            Holds(t, R, rows, tail) /\ (tail # Empty => t \in Torn)
  BY DEF RInv, FilesInv
<1>2. Contents(t, R, rows)
  <2>1. \A r \in R : r \in Row /\ r \in base /\ Home[r] = t
    BY DEF RowsOf
  <2> QED
    BY <2>1 DEF RInv, Shape, Contents
<1>3. Walked(t, R, rows, tail)
  <2> HIDE DEF R
  <2>1. R = RowsOf(t) \intersect base
    BY DEF R
  <2> QED
    BY <1>0, <1>1, <1>2, <2>1, WalkIs
<1>4. \A r \in base : Home[r] = t => r \in R
  BY DEF RInv, Shape, RowsOf
<1> HIDE DEF R
<1>5. /\ N \in Nat /\ DOMAIN Starts(t) = 0 .. N
      /\ \A i \in 0 .. N - 1 : Accepted(t, i)
      /\ Accepted(t, N) <=> (tail # <<>> => EndsInTime(t, tail))
      /\ \A r \in R : Place(r) \in 0 .. N - 1 /\ RowText(r, rows[r])
  BY <1>3 DEF Walked
<1> HIDE DEF N
<1>6. Malforms(t) => t \in Torn
  <2> SUFFICES ASSUME Malforms(t), t \notin Torn PROVE FALSE
    OBVIOUS
  <2>1. tail = <<>>
    BY <1>1 DEF Empty
  <2>2. Accepted(t, N)
    BY <1>5, <2>1
  <2>3. \A i \in 0 .. N : i = N \/ i \in 0 .. N - 1
    BY <1>5
  <2> QED
    BY <1>5, <2>2, <2>3 DEF Malforms
<1>7. ASSUME NEW r \in base, Home[r] = t
      PROVE  RowText(r, rows[r]) /\ \A i \in 0 .. Place(r) : Accepted(t, i)
  <2>1. Place(r) \in 0 .. N - 1 /\ RowText(r, rows[r])
    BY <1>4, <1>5, <1>7
  <2>2. \A i \in 0 .. Place(r) : i \in 0 .. N - 1
    BY <1>5, <2>1
  <2> QED
    BY <1>5, <2>1, <2>2
<1> QED
  BY <1>6, <1>7 DEF FileWalked

\* What init_data comes to: every row of the files it reads, up to and including the
\* table it fails at, which is one with a malformed row.
Loading ==
    /\ Stop \in ((path \ hasData) \intersect Torn) \union {TableNum}
    /\ Stop = TableNum \/ Stop \in Reached
    /\ Read = {r \in base : Home[r] \in Reached}
    /\ \A r \in Read : RowText(r, rows[r]) /\ buf[r] = None

\* init_data comes to that.
LEMMA LoadingIs == RInv /\ stuck = {} => Loading
<1> SUFFICES ASSUME RInv, stuck = {} PROVE Loading
  OBVIOUS
<1>0. path \subseteq Table /\ Table \subseteq Nat
  BY TableAssumption DEF RInv, Shape, Table
<1>1. \A t \in path : FileWalked(t)
  BY FilesWalked
<1> DEFINE failing == {t \in path \ hasData : Malforms(t)}
<1>2. Stop = TableNum \/ (Stop \in failing)
  <2>1. CASE failing = {}
    BY <2>1 DEF Stop
  <2>2. CASE failing # {}
    <3>1. failing \subseteq Nat
      BY <1>0
    <3>2. Stop = Min(failing)
      BY <2>2 DEF Stop
    <3> HIDE DEF failing
    <3>3. \E x \in failing : \A y \in failing : x <= y
      BY <2>2, <3>1, LeastExists
    <3>4. Min(failing) \in failing
      BY <3>3 DEF Min
    <3> QED
      BY <3>2, <3>4
  <2> QED
    BY <2>1, <2>2
<1>3. Stop \in ((path \ hasData) \intersect Torn) \union {TableNum}
  BY <1>1, <1>2 DEF FileWalked
<1>4. Stop = TableNum \/ Stop \in Reached
  <2> SUFFICES ASSUME Stop # TableNum PROVE Stop \in Reached
    OBVIOUS
  <2>1. Stop \in path \ hasData /\ Stop \in Nat
    BY <1>0, <1>2
  <2>2. Stop <= Stop
    BY <2>1
  <2> QED
    BY <2>1, <2>2 DEF Reached
<1>5. Read = {r \in base : Home[r] \in Reached}
  BY <1>1 DEF Read, Reached, FileWalked
<1>6. ASSUME NEW r \in Read PROVE RowText(r, rows[r]) /\ buf[r] = None
  <2>1. r \in base /\ Home[r] \in path \ hasData
    BY DEF Read, Reached
  <2> QED
    BY <1>1, <2>1 DEF FileWalked, RInv, BufInv, Shape
<1> QED
  BY <1>3, <1>4, <1>5, <1>6 DEF Loading

-----------------------------------------------------------------------------
(* Changing a row                                                          *)

\* What set_column_data reads, and what it writes.
WrittenRow(r, c, v) == [d \in ColumnsOf(Home[r]) |-> IF d = c THEN v ELSE Column(r, d)]

Written(r, c, v) ==
    LET text == Copied(r, c, v) IN
    /\ WrittenRow(r, c, v) \in [ColumnsOf(Home[r]) -> Value]
    /\ Bytes(Home[r], text, Offsets(Home[r], text), WrittenRow(r, c, v))
    /\ text # None
    /\ RowEnd(Home[r], text) = Len(text)

\* Every column reads as a value, that of a row without bytes as the empty one.
LEMMA ColumnType ==
    ASSUME RInv, NEW r \in Row, NEW c \in ColumnsOf(Home[r])
    PROVE  Column(r, c) \in Value /\ (buf[r] = None => Column(r, c) = Empty)
<1>1. CASE buf[r] = None
  BY <1>1, CharAssumption DEF Column
<1>2. CASE buf[r] # None
  BY <1>2, InvTypes DEF TypeOK
<1> QED
  BY <1>1, <1>2

\* The copied bytes are the row with the new value.
LEMMA WrittenIs ==
    ASSUME RInv, NEW r \in Row, NEW c \in ColumnsOf(Home[r]), NEW v \in Value
    PROVE  Written(r, c, v)
<1> DEFINE t == Home[r]
           row == WrittenRow(r, c, v)
           text == Copied(r, c, v)
<1>0. t \in Table /\ ColumnNum[t] \in Nat /\ ColumnsOf(t) = 0 .. ColumnNum[t] - 1
  BY RowAssumption, TableAssumption DEF ColumnsOf
<1>1. row \in [ColumnsOf(t) -> Value]
  BY ColumnType DEF WrittenRow
<1>2. text = Line(ColumnNum[t], row)
  BY DEF Copied, WrittenRow
<1> HIDE DEF t, row, text
<1>3. text \in Seq(Nat)
  <2>1. LineBytes(ColumnNum[t], row)
    BY <1>0, <1>1, LineIs
  <2> QED
    BY <1>2, <2>1 DEF LineBytes
<1>4. <<>> \in Seq(Nat) /\ text = text \o <<>>
  BY <1>3, ConcatEmptySeq, EmptySeq
<1>5. text = Line(ColumnNum[t], row) \o <<>>
  BY <1>2, <1>4
<1>6. Bytes(t, text, Offsets(t, text), row)
  BY <1>1, <1>4, <1>5 DEF Bytes
<1>7. RowRead(t, row, text)
  BY <1>0, <1>1, <1>4, <1>5, LineRead
<1>8. RowEnd(t, text) = Len(text)
  BY <1>2, <1>7 DEF RowRead
<1>9. text # None
  BY <1>3, CharAssumption
<1> QED
  BY <1>1, <1>6, <1>8, <1>9 DEF t, row, text, Written

\* The block has room for the bytes that are copied.
HasRoom(r, c, v) == Room(r, c, v) \in Int /\ Len(Copied(r, c, v)) <= Room(r, c, v)

\* The length asked of the allocator is enough for what is copied.
LEMMA RoomEnough ==
    ASSUME RInv, NEW r \in Row, NEW c \in ColumnsOf(Home[r]), NEW v \in Value
    PROVE  HasRoom(r, c, v)
<1> DEFINE t == Home[r]
           n == ColumnNum[t]
           row == WrittenRow(r, c, v)
           cols == Cols(n, row)
           old == [i \in 1 .. n |->
                    IF i - 1 = c /\ c # KeyColumn THEN 0 ELSE Len(Column(r, i - 1)) + 1]
           new == [i \in 1 .. n |-> Len(row[i - 1]) + 1]
<1>0. /\ t \in Table /\ n \in Nat /\ n # 0 /\ ColumnsOf(t) = 0 .. n - 1
      /\ \A i \in 1 .. n : i - 1 \in ColumnsOf(t)
      /\ c \in Int /\ c + 1 \in 1 .. n /\ c + 1 - 1 = c
  BY RowAssumption, TableAssumption DEF ColumnsOf
<1>1. row \in [0 .. n - 1 -> Value]
  BY <1>0, WrittenIs DEF Written
<1>2. \A x \in Value : Len(x) \in Nat
  BY CharAssumption, LenProperties
<1>3. \A d \in ColumnsOf(t) : Len(Column(r, d)) \in Nat /\ Len(row[d]) \in Nat
  BY <1>0, <1>1, <1>2, ColumnType
<1>4. \A d \in ColumnsOf(t) : row[d] = IF d = c THEN v ELSE Column(r, d)
  BY DEF WrittenRow
<1>5. old \in [1 .. n -> Int] /\ new \in [1 .. n -> Int]
  <2> HIDE DEF row, t, n
  <2> QED
    BY <1>0, <1>3
<1>6. \A i \in 1 .. n : i # c + 1 => new[i] = old[i]
  <2> HIDE DEF row
  <2> SUFFICES ASSUME NEW i \in 1 .. n, i # c + 1 PROVE new[i] = old[i]
    OBVIOUS
  <2>1. i - 1 \in ColumnsOf(t) /\ i - 1 # c
    BY <1>0
  <2> QED
    BY <1>4, <2>1
<1>7. new[c + 1] = Len(v) + 1 /\ old[c + 1] >= 0 /\ old[c + 1] \in Int /\ Len(v) \in Nat
  <2> HIDE DEF row, t, n
  <2> DEFINE k == c + 1
  <2>0. k \in 1 .. n /\ k = c + 1 /\ k - 1 = c
    BY <1>0
  <2> HIDE DEF k
  <2>4. row[k - 1] = v
    BY <1>0, <1>4, <2>0
  <2>1. new[c + 1] = Len(v) + 1
    BY <2>0, <2>4
  <2>5. old[k] = IF k - 1 = c /\ c # KeyColumn THEN 0 ELSE Len(Column(r, k - 1)) + 1
    BY <2>0
  <2>2. old[c + 1] = IF c # KeyColumn THEN 0 ELSE Len(Column(r, c)) + 1
    <3> HIDE DEF old
    <3> QED
      BY <2>0, <2>5
  <2>3. Len(Column(r, c)) \in Nat
    BY <1>3 DEF t
  <2> QED
    BY <1>2, <2>1, <2>2, <2>3
<1>8. OthersLen(r, c) = Total(n, old)
  BY DEF OthersLen
<1>9. Copied(r, c, v) = Line(n, row)
  BY DEF Copied, WrittenRow
<1>10. LineBytes(n, row)
  <2> HIDE DEF row, n
  <2> QED
    BY <1>0, <1>1, LineIs
<1>11. Len(Joined(n, cols)) = Total(n, new)
  <2>1. \A i \in 1 .. n : cols[i] \in Seq(Nat) /\ new[i] = Len(cols[i])
    <3> SUFFICES ASSUME NEW i \in 1 .. n PROVE cols[i] \in Seq(Nat) /\ new[i] = Len(cols[i])
      OBVIOUS
    <3>1. ColumnText(n, row, i)
      <4> HIDE DEF row, n
      <4> QED
        BY <1>0, <1>1, ColsAre
    <3> QED
      BY <3>1 DEF ColumnText
  <2> HIDE DEF cols, new, n
  <2> QED
    BY <1>0, <1>5, <2>1, JoinedLen
<1>12. Total(n, new) = Total(n, old) + (new[c + 1] - old[c + 1])
  <2> HIDE DEF new, old, n
  <2> QED
    BY <1>0, <1>5, <1>6, TotalChanged
<1>13. Total(n, old) \in Int
  <2> HIDE DEF old, n
  <2> QED
    BY <1>0, <1>5, TotalType
<1>14. Len(Copied(r, c, v)) = Total(n, new) + 1
  BY <1>9, <1>10, <1>11 DEF LineBytes, Start
<1>15. Room(r, c, v) = Total(n, old) + Len(v) + 1 + 1
  BY <1>8 DEF Room
<1> HIDE DEF old, new
<1> QED
  BY <1>7, <1>12, <1>13, <1>14, <1>15 DEF HasRoom

-----------------------------------------------------------------------------
(* The files and lists of a step                                           *)

\* What is printed depends on the rows printed.
LEMMA PrintedSame ==
    ASSUME NEW t, NEW R \in SUBSET Row, NEW f, NEW g, \A r \in R : f[r] = g[r]
    PROVE  Printed(t, R, f) = Printed(t, R, g)
<1>1. IsFiniteSet(R) /\ R \subseteq Int
  <2>1. IsFiniteSet(R)
    BY RowAssumption, FS_Subset
  <2> QED
    BY <2>1, RowAssumption
<1>2. Ascending(R) \in [1 .. Cardinality(R) -> R]
  BY <1>1, AscendingIs
<1>3. \A i \in DOMAIN Ascending(R) : f[Ascending(R)[i]] = g[Ascending(R)[i]]
  BY <1>2
<1>4. [i \in DOMAIN Ascending(R) |-> Line(ColumnNum[t], f[Ascending(R)[i]])]
        = [i \in DOMAIN Ascending(R) |-> Line(ColumnNum[t], g[Ascending(R)[i]])]
  BY <1>3
<1> QED
  BY <1>4 DEF Printed

\* Entries stay entries while rows come into use.
LEMMA EntriesStay ==
    ASSUME base \union added \subseteq (base \union added)'
    PROVE  Entry \subseteq Entry' /\ \A s \in Seq(Entry) : s \in Seq(Entry')
<1>1. Entry \subseteq Entry'
  BY DEF Entry, ForeignKeys
<1> QED
  BY <1>1, SeqMonotonic

-----------------------------------------------------------------------------
(* The steps                                                               *)

\* A DAO prints rows that were not there, into files without rows.
LEMMA DaoInitInv ==
    ASSUME RInv, NEW S \in DaoLoads, DaoInit(S)
    PROVE  RInv'
<1>0. S \subseteq Table /\ path' = path \union S /\ S \intersect path = {}
      /\ UNCHANGED <<loads, added, stat, hash, incomplete, bytes, list>>
  BY TableAssumption DEF DaoInit
<1>a. PICK loaded \in FirstRows(S), torn \in SUBSET (S \intersect Torn) :
       \E content \in [loaded -> UNION {[ColumnsOf(t) -> Value] : t \in S}] :
        /\ \A r \in loaded : DOMAIN content[r] = ColumnsOf(Home[r])
        /\ base' = base \union loaded
        /\ rows' = [r \in Row |-> IF r \in loaded THEN content[r] ELSE rows[r]]
        /\ file' = [t \in Table |->
            IF t \notin S THEN file[t]
            ELSE Printed(t, RowsOf(t) \intersect loaded, content)
                 \o (IF t \in torn THEN Malformed(t) ELSE <<>>)]
  BY Zenon DEF DaoInit
<1>1. PICK content \in [loaded -> UNION {[ColumnsOf(t) -> Value] : t \in S}] :
        /\ \A r \in loaded : DOMAIN content[r] = ColumnsOf(Home[r])
        /\ base' = base \union loaded
        /\ rows' = [r \in Row |-> IF r \in loaded THEN content[r] ELSE rows[r]]
        /\ file' = [t \in Table |->
            IF t \notin S THEN file[t]
            ELSE Printed(t, RowsOf(t) \intersect loaded, content)
                 \o (IF t \in torn THEN Malformed(t) ELSE <<>>)]
  BY Zenon, <1>a
<1>2. loaded \subseteq Row /\ \A r \in loaded : Home[r] \in S
  BY DEF FirstRows
<1>3. \A r \in loaded : r \notin base /\ r \notin added /\ Home[r] \notin path
  BY <1>0, <1>2 DEF RInv, Shape
<1>4. ASSUME NEW r \in loaded PROVE content[r] \in [ColumnsOf(Home[r]) -> Value]
  <2>1. content[r] \in UNION {[ColumnsOf(t) -> Value] : t \in S}
    OBVIOUS
  <2>2. PICK t \in S : content[r] \in [ColumnsOf(t) -> Value]
    BY <2>1
  <2>3. DOMAIN content[r] = ColumnsOf(Home[r])
    BY <1>1
  <2> QED
    BY <2>2, <2>3
<1>5. Shape'
  <2>1. /\ path' \subseteq Table /\ hasData' \subseteq path' /\ hasRev' \subseteq hasData'
        /\ stuck' \subseteq path' \ hasData'
    BY <1>0 DEF RInv, Shape, loads
  <2>2. base' \subseteq Row /\ added' \subseteq Row \ base'
    BY <1>0, <1>1, <1>2, <1>3 DEF RInv, Shape
  <2>3. \A r \in base' : Home[r] \in path'
    BY <1>0, <1>1, <1>2 DEF RInv, Shape
  <2>4. \A r \in added' : Home[r] \in hasData' \union stuck'
    BY <1>0 DEF RInv, Shape, loads
  <2>5. DOMAIN rows' = Row /\ DOMAIN file' = Table
    BY <1>1
  <2>6. \A r \in Row : IF r \in base' THEN rows'[r] \in [ColumnsOf(Home[r]) -> Value]
                                      ELSE rows'[r] = None
    BY <1>1, <1>3, <1>4 DEF RInv, Shape
  <2>7. list' \in [Row -> Seq(Entry')]
    <3>1. base \union added \subseteq (base \union added)'
      BY <1>0, <1>1
    <3>2. list' = list /\ list \in [Row -> Seq(Entry)]
      BY <1>0 DEF RInv, Shape
    <3> QED
      BY <3>1, <3>2, EntriesStay
  <2> QED
    BY <1>0, <2>1, <2>2, <2>3, <2>4, <2>5, <2>6, <2>7 DEF RInv, Shape, bytes
<1>6. ASSUME NEW t \in path'
      PROVE  \E tail \in {Empty, Malformed(t)} :
                /\ Holds(t, RowsOf(t) \intersect base, rows, tail)'
                /\ tail # Empty => t \in Torn
  <2>0. t \in Table
    BY <1>0 DEF RInv, Shape
  <2>1. CASE t \in S
    <3> DEFINE R == RowsOf(t) \intersect loaded
               tail == IF t \in torn THEN Malformed(t) ELSE <<>>
    <3>1. RowsOf(t) \intersect base' = R
      BY <1>0, <1>1, <2>1 DEF RowsOf, RInv, Shape
    <3>2. \A r \in R : rows'[r] = content[r]
      BY <1>1, <1>2
    <3>3. Printed(t, R, rows') = Printed(t, R, content)
      <4>1. R \in SUBSET Row
        BY DEF RowsOf
      <4> HIDE DEF R
      <4> QED
        BY <3>2, <4>1, PrintedSame
    <3>4. file'[t] = Printed(t, R, content) \o tail
      BY <1>1, <2>0, <2>1
    <3>5. tail \in Seq(Nat) /\ tail \in {Empty, Malformed(t)} /\ (tail # Empty => t \in Torn)
      BY <2>0, MalformedRead, EmptySeq DEF Empty
    <3> HIDE DEF tail, R
    <3>6. file'[t] = Printed(t, RowsOf(t) \intersect base', rows') \o tail
      BY <3>1, <3>3, <3>4
    <3>7. Holds(t, RowsOf(t) \intersect base, rows, tail)'
      BY <3>5, <3>6 DEF Holds, Printed, RowsOf
    <3> QED
      BY <3>5, <3>7
  <2>2. CASE t \notin S
    <3> DEFINE R == RowsOf(t) \intersect base
    <3>1. PICK tail \in {Empty, Malformed(t)} : Holds(t, R, rows, tail) /\ (tail # Empty => t \in Torn)
      BY <1>0, <2>2 DEF RInv, FilesInv
    <3>2. RowsOf(t) \intersect base' = R
      BY <1>1, <1>2, <2>2 DEF RowsOf
    <3>3. \A r \in R : rows'[r] = rows[r]
      BY <1>1, <1>3 DEF RowsOf
    <3>4. Printed(t, R, rows') = Printed(t, R, rows)
      <4>1. R \in SUBSET Row
        BY DEF RowsOf
      <4> HIDE DEF R
      <4> QED
        BY <3>3, <4>1, PrintedSame
    <3>5. file'[t] = file[t]
      BY <1>1, <2>0, <2>2
    <3> HIDE DEF R
    <3>6. tail \in Seq(Nat) /\ file'[t] = Printed(t, RowsOf(t) \intersect base', rows') \o tail
      BY <3>1, <3>2, <3>4, <3>5 DEF Holds
    <3>7. Holds(t, RowsOf(t) \intersect base, rows, tail)'
      BY <3>6 DEF Holds, Printed, RowsOf
    <3> QED
      BY <3>1, <3>7
  <2> QED
    BY <2>1, <2>2
<1>7. BufInv'
  <2>1. ASSUME NEW r \in Row, r \in base', Home[r] \in hasData' \union stuck'
        PROVE  buf'[r] # None
    <3>1. r \in base
      BY <1>0, <1>1, <1>3, <2>1 DEF RInv, Shape, loads
    <3> QED
      BY <1>0, <2>1, <3>1 DEF RInv, BufInv, loads, bytes
  <2>2. ASSUME NEW r \in Row, buf'[r] # None
        PROVE  /\ r \in (base \union added)' /\ Home[r] \in (hasData \union stuck)'
               /\ \E row : Bytes(Home[r], buf'[r], offset'[r], row)
    BY <1>0, <1>1, <2>2 DEF RInv, BufInv, loads, bytes
  <2> QED
    BY <2>1, <2>2 DEF BufInv, Bytes, Offsets, Ends, StrLen
<1>8. BlockInv'
  BY <1>0 DEF RInv, BlockInv, RowInBlock, bytes
<1> QED
  BY <1>5, <1>6, <1>7, <1>8 DEF RInv, FilesInv

\* A step that leaves the files, and what they have, as they are.
LEMMA FilesSame ==
    ASSUME RInv, UNCHANGED <<path, base, rows, file>>
    PROVE  FilesInv'
<1>1. ASSUME NEW t \in path
      PROVE  \E tail \in {Empty, Malformed(t)} :
                /\ Holds(t, RowsOf(t) \intersect base, rows, tail)'
                /\ tail # Empty => t \in Torn
  <2>1. PICK tail \in {Empty, Malformed(t)} :
            Holds(t, RowsOf(t) \intersect base, rows, tail) /\ (tail # Empty => t \in Torn)
    BY DEF RInv, FilesInv
  <2>2. Holds(t, RowsOf(t) \intersect base, rows, tail)'
    BY <2>1 DEF Holds
  <2> QED
    BY <2>1, <2>2
<1> QED
  BY <1>1 DEF FilesInv

\* TableIndex::add brings a row without bytes into use.
LEMMA AddInv ==
    ASSUME RInv, NEW t \in Table, Add(t)
    PROVE  RInv'
<1> DEFINE free == RowsOf(t) \ (base \union added)
           r == Min(free)
<1>1. /\ t \in hasData \union stuck /\ free # {}
      /\ added' = added \union {r} /\ stat' = [stat EXCEPT ![r] = "UPDATE_ROW"]
      /\ UNCHANGED <<path, loads, base, hash, incomplete, rows, file, bytes, list>>
  BY DEF Add
<1>2. r \in Row /\ r \notin base /\ Home[r] = t
  <2>1. free \subseteq Nat
    BY RowAssumption DEF RowsOf
  <2>2. r \in free
    <3> HIDE DEF free
    <3>1. \E x \in free : \A y \in free : x <= y
      BY <1>1, <2>1, LeastExists
    <3> QED
      BY <3>1 DEF Min
  <2> HIDE DEF r
  <2> QED
    BY <2>2 DEF RowsOf
<1> HIDE DEF r, free
<1>3. list' \in [Row -> Seq(Entry')]
  <2>1. base \union added \subseteq (base \union added)'
    BY <1>1
  <2>2. list' = list /\ list \in [Row -> Seq(Entry)]
    BY <1>1 DEF RInv, Shape
  <2> QED
    BY <2>1, <2>2, EntriesStay
<1>4. Shape'
  BY <1>1, <1>2, <1>3 DEF RInv, Shape, loads, bytes
<1>5. BufInv'
  BY <1>1 DEF RInv, BufInv, loads, bytes
<1>6. BlockInv'
  BY <1>1 DEF RInv, BlockInv, RowInBlock, bytes
<1> QED
  BY <1>1, <1>4, <1>5, <1>6, FilesSame DEF RInv

\* The first of some rows.
LEMMA FirstIs ==
    ASSUME NEW S \in SUBSET Row
    PROVE  First(S) \in S \union {None}
<1>1. CASE S = {}
  BY <1>1 DEF First
<1>2. CASE S # {}
  <2>1. \E x \in S : \A y \in S : x <= y
    BY <1>2, RowAssumption, LeastExists
  <2>2. Min(S) \in S
    BY <2>1 DEF Min
  <2> QED
    BY <1>2, <2>2 DEF First
<1> QED
  BY <1>1, <1>2

\* The bytes that init finds at a row's place are the row.
LEMMA TextRead ==
    ASSUME NEW r \in Row, NEW row \in [ColumnsOf(Home[r]) -> Value], RowText(r, row)
    PROVE  Bytes(Home[r], TextOf(r), Offsets(Home[r], TextOf(r)), row) /\ TextOf(r) # None
<1> DEFINE t == Home[r]
           text == TextOf(r)
<1>1. PICK rest \in Seq(Nat) : text = Line(ColumnNum[t], row) \o rest
  BY DEF RowText
<1>2. /\ ColumnNum[t] \in Nat \ {0} /\ row \in [0 .. ColumnNum[t] - 1 -> Value]
  BY RowAssumption, TableAssumption DEF ColumnsOf
<1> HIDE DEF text
<1>3. Bytes(t, text, Offsets(t, text), row)
  BY <1>1 DEF Bytes
<1>4. text # None
  <2>1. LineBytes(ColumnNum[t], row)
    BY <1>2, LineIs
  <2>2. Line(ColumnNum[t], row) \in Seq(Nat)
    BY <2>1 DEF LineBytes
  <2>3. text \in Seq(Nat)
    BY <1>1, <2>2, ConcatProperties
  <2> QED
    BY <2>3, CharAssumption
<1> QED
  BY <1>3, <1>4 DEF text

\* What init_data enters in the reverse lists.
ListsAfter(T) ==
    [n \in Row |->
        list[n] \o Arranged({e \in References(T) : Target(e)' = n}, WalkOrder(T))]

Linked(n, T) ==
    LET E == {e \in References(T) : Target(e)' = n}
        more == Arranged(E, WalkOrder(T))
    IN  /\ E \subseteq Entry /\ more \in Seq(Entry) /\ ToSet(more) = E
        /\ list[n] \o more \in Seq(Entry)
        /\ ToSet(list[n] \o more) = ToSet(list[n]) \union E

\* The lists after init_data have the old entries and the references that lead to
\* them.
LEMMA LinkedIs ==
    ASSUME Shape, NEW T, NEW n \in Row
    PROVE  Linked(n, T)
<1> DEFINE E == {e \in References(T) : Target(e)' = n}
           more == Arranged(E, WalkOrder(T))
<1>1. E \in SUBSET References(T)
  OBVIOUS
<1>2. E \subseteq Entry
  BY <1>1 DEF References, Entry
<1>3. list[n] \in Seq(Entry)
  BY DEF Shape
<1> HIDE DEF E
<1>4. EnteredIn(E, WalkOrder(T))
  BY <1>1, ReferencesEntered
<1>5. more \in Seq(E) /\ ToSet(more) = E
  BY <1>4 DEF EnteredIn
<1> HIDE DEF more
<1>6. more \in Seq(Entry)
  BY <1>2, <1>5, SeqMonotonic
<1>7. ToSet(list[n] \o more) = ToSet(list[n]) \union ToSet(more)
  BY <1>3, <1>6, SetOfJoin
<1>8. list[n] \o more \in Seq(Entry)
  BY <1>3, <1>6, ConcatProperties
<1> QED
  BY <1>2, <1>5, <1>6, <1>7, <1>8 DEF Linked, E, more

\* init_data reads rows that had no bytes.
LEMMA InitDataInv ==
    ASSUME RInv, NEW hashOn, NEW reverseOn, InitData(hashOn, reverseOn)
    PROVE  RInv'
<1>1. /\ stuck = {}
      /\ hasData' = hasData \union (Reached \ {Stop})
      /\ stuck' = {Stop} \intersect Table
      /\ hash' = IndexAfter(hashOn)
      /\ buf' = [r \in Row |-> IF r \in Read THEN TextOf(r) ELSE buf[r]]
      /\ offset' = [r \in Row |->
                    IF r \in Read THEN Offsets(Home[r], TextOf(r)) ELSE offset[r]]
      /\ UNCHANGED <<path, base, added, stat, rows, file, block>>
  BY DEF InitData
<1>2. Loading
  BY <1>1, LoadingIs
<1>3. /\ Reached \subseteq path \ hasData /\ path \subseteq Table
      /\ base \subseteq Row /\ TableNum \notin Table
  BY TableAssumption DEF Reached, RInv, Shape, Table
<1>4. hasData' \union stuck' = hasData \union Reached
  BY <1>1, <1>2, <1>3 DEF Loading
<1>5. hasRev' = hasRev \/ hasRev' = hasData'
  BY DEF InitData
<1>6. hash' \in [Table -> [Value -> Row \union {None}]]
  <2>1. hash \in [Table -> [Value -> Row \union {None}]]
    BY DEF RInv, Shape
  <2>2. ASSUME NEW t \in Table PROVE IndexRows(t) \in [Value -> Row \union {None}]
    <3>1. ASSUME NEW k \in Value
          PROVE  First({r \in Read : Home[r] = t /\ CStr(TextOf(r), 0) = k}) \in Row \union {None}
      <4> DEFINE S == {r \in Read : Home[r] = t /\ CStr(TextOf(r), 0) = k}
      <4>1. S \in SUBSET Row
        BY <1>3 DEF Read
      <4> HIDE DEF S
      <4>2. First(S) \in S \union {None}
        BY <4>1, FirstIs
      <4>3. First(S) \in Row \union {None}
        BY <4>1, <4>2
      <4> QED
        BY <4>3 DEF S
    <3> QED
      BY <2>1, <3>1 DEF IndexRows
  <2> QED
    BY <1>1, <2>1, <2>2 DEF IndexAfter
<1>7. list' \in [Row -> Seq(Entry)]
  <2>1. CASE list' = list
    BY <2>1 DEF RInv, Shape
  <2>2. CASE list' # list
    <3> DEFINE T == hasData' \ hasRev
    <3>1. list' = ListsAfter(T)
      BY <2>2 DEF InitData, ListsAfter
    <3> HIDE DEF T
    <3>2. \A n \in Row : Linked(n, T)
      BY LinkedIs DEF RInv
    <3> QED
      BY <3>1, <3>2 DEF Linked, ListsAfter
  <2> QED
    BY <2>1, <2>2
<1>8. Entry' = Entry
  BY <1>1 DEF Entry, ForeignKeys
<1>9. Shape'
  <2>1. /\ path' \subseteq Table /\ hasData' \subseteq path'
        /\ hasRev' \subseteq hasData' /\ stuck' \subseteq path' \ hasData'
    BY <1>1, <1>2, <1>3, <1>5 DEF RInv, Shape, Loading
  <2>2. \A r \in added' : Home[r] \in hasData' \union stuck'
    BY <1>1, <1>4 DEF RInv, Shape
  <2> QED
    BY <1>1, <1>6, <1>7, <1>8, <2>1, <2>2 DEF RInv, Shape
<1>10. BufInv'
  <2>1. ASSUME NEW r \in Row, r \in Read
        PROVE  /\ buf'[r] # None /\ r \in base /\ Home[r] \in hasData' \union stuck'
               /\ \E row : Bytes(Home[r], buf'[r], offset'[r], row)
    <3>1. r \in base /\ Home[r] \in Reached /\ RowText(r, rows[r])
      BY <1>2, <2>1 DEF Loading
    <3>2. rows[r] \in [ColumnsOf(Home[r]) -> Value]
      BY <3>1 DEF RInv, Shape
    <3>3. Bytes(Home[r], TextOf(r), Offsets(Home[r], TextOf(r)), rows[r]) /\ TextOf(r) # None
      BY <3>1, <3>2, TextRead
    <3>4. buf'[r] = TextOf(r) /\ offset'[r] = Offsets(Home[r], TextOf(r))
      BY <1>1, <2>1
    <3> QED
      BY <1>4, <3>1, <3>3, <3>4
  <2>2. ASSUME NEW r \in Row, r \notin Read
        PROVE  buf'[r] = buf[r] /\ offset'[r] = offset[r]
    BY <1>1, <2>2
  <2>3. ASSUME NEW r \in Row, r \notin Read, r \in base, Home[r] \in hasData' \union stuck'
        PROVE  buf[r] # None
    <3>1. Home[r] \notin Reached
      BY <1>2, <2>3 DEF Loading
    <3>2. Home[r] \in hasData
      BY <1>4, <2>3, <3>1
    <3> QED
      BY <2>3, <3>2 DEF RInv, BufInv
  <2>4. ASSUME NEW r \in Row
        PROVE  /\ buf'[r] # None =>
                    /\ r \in base' \union added' /\ Home[r] \in hasData' \union stuck'
                    /\ \E row : Bytes(Home[r], buf'[r], offset'[r], row)
               /\ r \in base' /\ Home[r] \in hasData' \union stuck' => buf'[r] # None
    <3>1. CASE r \in Read
      BY <1>1, <2>1, <3>1
    <3>2. CASE r \notin Read
      <4>1. buf[r] # None =>
              /\ r \in base \union added /\ Home[r] \in hasData \union stuck
              /\ \E row : Bytes(Home[r], buf[r], offset[r], row)
        BY DEF RInv, BufInv
      <4>2. hasData \union stuck \subseteq hasData' \union stuck'
        BY <1>1, <1>4
      <4>3. base' = base /\ added' = added
        BY <1>1
      <4> QED
        BY <2>2, <2>3, <3>2, <4>1, <4>2, <4>3
    <3> QED
      BY <3>1, <3>2
  <2> QED
    BY <2>4 DEF BufInv
<1>11. BlockInv'
  <2>1. ASSUME NEW r \in Row, block'[r] > 0
        PROVE  /\ block[r] > 0 /\ block'[r] = block[r] /\ buf'[r] = buf[r] /\ buf[r] # None
    <3>1. block[r] > 0 /\ block'[r] = block[r]
      BY <1>1, <2>1
    <3>2. buf[r] # None
      BY <3>1 DEF RInv, BlockInv
    <3>3. r \notin Read
      BY <1>2, <3>2 DEF Loading
    <3> QED
      BY <1>1, <3>1, <3>2, <3>3
  <2> QED
    BY <2>1 DEF RInv, BlockInv, RowInBlock
<1> QED
  BY <1>1, <1>9, <1>10, <1>11, FilesSame DEF RInv

\* del_reverse_index on a list drops the entries of a row.
EntriesDropped(A, entries, r) ==
    /\ DelReverse(entries, r) \in Seq(A)
    /\ ToSet(DelReverse(entries, r)) = {e \in ToSet(entries) : e[2] # r}

\* No other entry is dropped.
LEMMA DelReverseIs ==
    ASSUME NEW A, NEW entries \in Seq(A), NEW r
    PROVE  EntriesDropped(A, entries, r)
<1> DEFINE S == {i \in DOMAIN entries : entries[i][2] # r}
<1>1. {entries[i] : i \in S} = {e \in ToSet(entries) : e[2] # r}
  BY DEF ToSet
<1>2. S \in SUBSET DOMAIN entries
  OBVIOUS
<1>3. DelReverse(entries, r) = Picked(entries, S)
  BY DEF DelReverse
<1> HIDE DEF S
<1>4. PickedFrom(A, entries, S)
  BY <1>2, PickedIs
<1> QED
  BY <1>1, <1>3, <1>4 DEF PickedFrom, EntriesDropped

\* What set_column_data leaves of the list of n, and what it is after it.
KeptOf(n, r, c) == IF n = Target(<<c, r>>) THEN DelReverse(list[n], r) ELSE list[n]
ListSet(n, r, c, v) ==
    IF n = hash[Foreign[Home[r]][c]][v] THEN Append(KeptOf(n, r, c), <<c, r>>)
    ELSE KeptOf(n, r, c)

Relinked(n, r, c, v) ==
    /\ ListSet(n, r, c, v) \in Seq(Entry)
    /\ ToSet(ListSet(n, r, c, v)) =
         (IF n = Target(<<c, r>>) THEN {e \in ToSet(list[n]) : e[2] # r} ELSE ToSet(list[n]))
         \union {e \in {<<c, r>>} : n = hash[Foreign[Home[r]][c]][v]}

\* The new list drops the entries of the row from the old target and has one at
\* the new.
LEMMA RelinkedIs ==
    ASSUME Shape, NEW n \in Row, NEW r \in base \union added, NEW c \in ForeignKeys(r), NEW v
    PROVE  Relinked(n, r, c, v)
<1> DEFINE kept == KeptOf(n, r, c)
           e == <<c, r>>
<1>1. list[n] \in Seq(Entry) /\ e \in Entry
  BY DEF Shape, Entry
<1>2. EntriesDropped(Entry, list[n], r)
  BY <1>1, DelReverseIs
<1>3. /\ kept \in Seq(Entry)
      /\ ToSet(kept) = (IF n = Target(<<c, r>>) THEN {x \in ToSet(list[n]) : x[2] # r}
                                                ELSE ToSet(list[n]))
  BY <1>1, <1>2 DEF EntriesDropped, KeptOf
<1> HIDE DEF kept, e
<1>4. Append(kept, e) \in Seq(Entry) /\ ToSet(Append(kept, e)) = ToSet(kept) \union {e}
  BY <1>1, <1>3, SetOfAppend
<1>5. ListSet(n, r, c, v) =
        IF n = hash[Foreign[Home[r]][c]][v] THEN Append(kept, e) ELSE kept
  BY DEF ListSet, kept, e
<1>6. ListSet(n, r, c, v) \in Seq(Entry)
  BY <1>3, <1>4, <1>5
<1>7. ToSet(ListSet(n, r, c, v)) =
        ToSet(kept) \union {x \in {e} : n = hash[Foreign[Home[r]][c]][v]}
  BY <1>4, <1>5
<1> QED
  BY <1>3, <1>6, <1>7 DEF Relinked, e

\* set_column_data gives a row in use the bytes and offsets of a row.
LEMMA SetColumnInv ==
    ASSUME RInv, NEW r \in Row, NEW v \in Value, NEW c \in ColumnsOf(Home[r]),
           SetColumn(r, c, v)
    PROVE  RInv'
<1> DEFINE text == Copied(r, c, v)
           t == Home[r]
<1>1. /\ r \in base \union added /\ t \in hasData \union stuck
      /\ hash' = IF c = KeyColumn THEN [hash EXCEPT ![t] = HashSet(@, v, r)] ELSE hash
      /\ block' = [block EXCEPT ![r] = Room(r, c, v)]
      /\ buf' = [buf EXCEPT ![r] = text]
      /\ offset' = [offset EXCEPT ![r] = Offsets(t, text)]
      /\ stat' = [stat EXCEPT ![r] = "UPDATE_ROW"]
      /\ UNCHANGED <<path, loads, base, added, incomplete, rows, file>>
  BY DEF SetColumn, Live
<1>2. /\ Bytes(t, text, Offsets(t, text), WrittenRow(r, c, v)) /\ text # None
      /\ RowEnd(t, text) = Len(text)
  BY WrittenIs DEF Written
<1>3. Room(r, c, v) \in Int /\ Len(text) <= Room(r, c, v)
  BY RoomEnough DEF HasRoom
<1> HIDE DEF text
<1>4. hash' \in [Table -> [Value -> Row \union {None}]]
  BY <1>1 DEF RInv, Shape, HashSet
<1>5. list' \in [Row -> Seq(Entry)]
  <2>1. CASE c \notin ForeignKeys(r)
    BY <2>1 DEF SetColumn, RInv, Shape
  <2>2. CASE c \in ForeignKeys(r)
    <3>1. list' = [n \in Row |-> ListSet(n, r, c, v)]
      BY <2>2 DEF SetColumn, ListSet, KeptOf
    <3>2. \A n \in Row : Relinked(n, r, c, v)
      BY <1>1, <2>2, RelinkedIs DEF RInv
    <3> QED
      BY <3>1, <3>2 DEF Relinked
  <2> QED
    BY <2>1, <2>2
<1>6. Entry' = Entry
  BY <1>1 DEF Entry, ForeignKeys
<1>7. Shape'
  BY <1>1, <1>3, <1>4, <1>5, <1>6 DEF RInv, Shape, loads
<1>8. BufInv'
  <2>1. ASSUME NEW x \in Row
        PROVE  /\ buf'[x] # None =>
                    /\ x \in base' \union added' /\ Home[x] \in hasData' \union stuck'
                    /\ \E row : Bytes(Home[x], buf'[x], offset'[x], row)
               /\ x \in base' /\ Home[x] \in hasData' \union stuck' => buf'[x] # None
    <3>1. CASE x = r
      <4>1. buf'[x] = text /\ offset'[x] = Offsets(t, text)
        BY <1>1, <3>1 DEF RInv, Shape
      <4> QED
        BY <1>1, <1>2, <3>1, <4>1 DEF loads
    <3>2. CASE x # r
      <4>1. buf'[x] = buf[x] /\ offset'[x] = offset[x]
        BY <1>1, <3>2 DEF RInv, Shape
      <4> QED
        BY <1>1, <4>1 DEF RInv, BufInv, loads
    <3> QED
      BY <3>1, <3>2
  <2> QED
    BY <2>1 DEF BufInv
<1>9. BlockInv'
  <2>1. ASSUME NEW x \in Row, block'[x] > 0
        PROVE  /\ Len(buf'[x]) <= block'[x] /\ RowEnd(Home[x], buf'[x]) = Len(buf'[x])
               /\ buf'[x] # None
    <3>1. CASE x = r
      <4>1. buf'[x] = text /\ block'[x] = Room(r, c, v)
        BY <1>1, <3>1 DEF RInv, Shape
      <4> QED
        BY <1>2, <1>3, <3>1, <4>1
    <3>2. CASE x # r
      <4>1. buf'[x] = buf[x] /\ block'[x] = block[x]
        BY <1>1, <3>2 DEF RInv, Shape
      <4> QED
        BY <2>1, <4>1 DEF RInv, BlockInv, RowInBlock
    <3> QED
      BY <3>1, <3>2
  <2> QED
    BY <2>1 DEF BlockInv, RowInBlock
<1> QED
  BY <1>1, <1>7, <1>8, <1>9, FilesSame DEF RInv

\* del takes a row's entries out of lists.
UnlinkedList(n, r) ==
    IF \E c \in ForeignKeys(r) : Target(<<c, r>>) = n THEN DelReverse(list[n], r) ELSE list[n]

\* del keeps the invariant.
LEMMA DelInv ==
    ASSUME RInv, NEW r \in Row, Del(r)
    PROVE  RInv'
<1>1. /\ list' = [n \in Row |-> UnlinkedList(n, r)]
      /\ stat' = [stat EXCEPT ![r] = "DELETE_ROW"]
      /\ UNCHANGED <<path, loads, base, added, hash, incomplete, rows, file, bytes>>
  BY DEF Del, UnlinkedList
<1>2. list' \in [Row -> Seq(Entry)]
  <2>1. ASSUME NEW n \in Row PROVE UnlinkedList(n, r) \in Seq(Entry)
    <3>1. list[n] \in Seq(Entry)
      BY DEF RInv, Shape
    <3>2. EntriesDropped(Entry, list[n], r)
      BY <3>1, DelReverseIs
    <3> QED
      BY <3>1, <3>2 DEF EntriesDropped, UnlinkedList
  <2> QED
    BY <1>1, <2>1
<1>3. Entry' = Entry
  BY <1>1 DEF Entry, ForeignKeys
<1>4. Shape'
  BY <1>1, <1>2, <1>3 DEF RInv, Shape, loads, bytes
<1>5. BufInv'
  BY <1>1 DEF RInv, BufInv, loads, bytes
<1>6. BlockInv'
  BY <1>1 DEF RInv, BlockInv, RowInBlock, bytes
<1> QED
  BY <1>1, <1>4, <1>5, <1>6, FilesSame DEF RInv

\* Every step keeps the invariant.
LEMMA StepInv == RInv /\ [Next]_vars => RInv'
<1> SUFFICES ASSUME RInv, [Next]_vars PROVE RInv'
  OBVIOUS
<1>1. CASE \E S \in DaoLoads : DaoInit(S)
  BY <1>1, DaoInitInv
<1>2. CASE \E m \in Modes : InitData(m[1], m[2])
  BY <1>2, InitDataInv
<1>3. CASE \E t \in Table : Add(t)
  BY <1>3, AddInv
<1>4. CASE \E r \in Row, v \in Value : \E c \in ColumnsOf(Home[r]) : SetColumn(r, c, v)
  BY <1>4, SetColumnInv
<1>5. CASE \E r \in Row : Del(r)
  BY <1>5, DelInv
<1>6. CASE UNCHANGED vars
  <2>1. /\ UNCHANGED <<path, hasData, hasRev, stuck, base, added, stat, hash>>
        /\ UNCHANGED <<rows, file, buf, offset, block, list>>
    BY <1>6 DEF vars
  <2>2. Entry' = Entry
    BY <2>1 DEF Entry, ForeignKeys
  <2>3. Shape'
    BY <2>1, <2>2 DEF RInv, Shape
  <2>4. BufInv' /\ BlockInv'
    BY <2>1 DEF RInv, BufInv, BlockInv, RowInBlock
  <2> QED
    BY <2>1, <2>3, <2>4, FilesSame DEF RInv
<1> QED
  BY <1>1, <1>2, <1>3, <1>4, <1>5, <1>6 DEF Next

-----------------------------------------------------------------------------
(* What holds in every state                                               *)

\* The variables keep their types.
THEOREM TypeCorrect == Spec => []TypeOK
<1>1. Init => RInv
  BY InitInv
<1>2. RInv /\ [Next]_vars => RInv'
  BY StepInv
<1>3. RInv => TypeOK
  BY InvTypes
<1> QED
  BY <1>1, <1>2, <1>3, PTL DEF Spec

\* What set_column_data copies stays in its block.
THEOREM RowInBlockCorrect == Spec => []RowInBlock
<1>1. Init => RInv
  BY InitInv
<1>2. RInv /\ [Next]_vars => RInv'
  BY StepInv
<1>3. RInv => RowInBlock
  BY DEF RInv, BlockInv
<1> QED
  BY <1>1, <1>2, <1>3, PTL DEF Spec

-----------------------------------------------------------------------------
(* The store these bytes implement                                         *)

\* A row's columns, as its bytes and offsets give them.
ReadAt(t, text, off, row) ==
    \A c \in ColumnsOf(t) : CStr(text, IF c = KeyColumn THEN 0 ELSE off[c]) = row[c]

\* The bytes of a row give its columns.
LEMMA BytesGive ==
    ASSUME NEW t \in Table, NEW text, NEW off, NEW row, Bytes(t, text, off, row)
    PROVE  ReadAt(t, text, off, row)
<1>1. PICK rest \in Seq(Nat) : text = Line(ColumnNum[t], row) \o rest
  BY DEF Bytes
<1>2. row \in [ColumnsOf(t) -> Value] /\ off = Offsets(t, text)
  BY DEF Bytes
<1>3. RowRead(t, row, text)
  BY <1>1, <1>2, LineRead
<1> QED
  BY <1>2, <1>3 DEF RowRead, ReadAt

\* What Data says of a row in use.
DataOf(r) ==
    /\ Data[r] = None <=> buf[r] = None
    /\ buf[r] # None => Data[r] \in [ColumnsOf(Home[r]) -> Value]
    /\ \A c \in ColumnsOf(Home[r]) :
        Column(r, c) = IF Data[r] = None THEN Empty ELSE Data[r][c]

\* Data has for a row in use what is read of it.
LEMMA DataIs ==
    ASSUME RInv, NEW r \in Live
    PROVE  DataOf(r)
<1>0. r \in Row /\ r \in base \union added /\ Home[r] \in hasData \union stuck /\ Home[r] \in Table
  BY RowAssumption DEF Live, RInv, Shape
<1>1. CASE buf[r] = None
  <2>1. r \notin base
    BY <1>0, <1>1 DEF RInv, BufInv
  <2>2. Data[r] = None
    BY <1>0, <1>1, <2>1 DEF Data, RInv, Shape
  <2>3. \A c \in ColumnsOf(Home[r]) : Column(r, c) = Empty
    BY <1>1 DEF Column
  <2> QED
    BY <1>1, <2>2, <2>3 DEF DataOf
<1>2. CASE buf[r] # None
  <2>1. Data[r] = [c \in ColumnsOf(Home[r]) |-> Column(r, c)]
    BY <1>0, <1>2 DEF Data
  <2>2. \A c \in ColumnsOf(Home[r]) : Column(r, c) \in Value
    BY <1>0, ColumnType
  <2>3. Data[r] \in [ColumnsOf(Home[r]) -> Value]
    BY <2>1, <2>2
  <2>4. Data[r] # None
    BY <1>0, <2>3, CharAssumption
  <2> QED
    BY <1>2, <2>1, <2>3, <2>4 DEF DataOf
<1> QED
  BY <1>1, <1>2

\* A row whose bytes a step leaves reads the same.
LEMMA DataStays ==
    ASSUME NEW r \in Row, buf'[r] = buf[r], offset'[r] = offset[r],
           buf[r] = None => rows'[r] = rows[r]
    PROVE  /\ Data'[r] = Data[r]
           /\ \A c \in ColumnsOf(Home[r]) : Column(r, c)' = Column(r, c)
<1>1. \A c \in ColumnsOf(Home[r]) : Column(r, c)' = Column(r, c)
  BY DEF Column, ColumnAt
<1>2. Data'[r] = IF buf'[r] = None THEN rows'[r]
                 ELSE [c \in ColumnsOf(Home[r]) |-> Column(r, c)']
  BY DEF Data
<1>3. Data[r] = IF buf[r] = None THEN rows[r]
                ELSE [c \in ColumnsOf(Home[r]) |-> Column(r, c)]
  BY DEF Data
<1> QED
  BY <1>1, <1>2, <1>3

\* A row that a step writes reads as what was written.
LEMMA DataWritten ==
    ASSUME NEW r \in Row, NEW row, buf'[r] # None,
           Bytes(Home[r], buf'[r], offset'[r], row)
    PROVE  /\ Data'[r] = row
           /\ \A c \in ColumnsOf(Home[r]) : Column(r, c)' = row[c]
<1>1. ReadAt(Home[r], buf'[r], offset'[r], row)
  BY RowAssumption, BytesGive
<1>2. \A c \in ColumnsOf(Home[r]) : Column(r, c)' = row[c]
  BY <1>1 DEF ReadAt, Column, ColumnAt
<1>3. Data'[r] = [c \in ColumnsOf(Home[r]) |-> Column(r, c)']
  BY DEF Data
<1>4. row \in [ColumnsOf(Home[r]) -> Value]
  BY DEF Bytes
<1> QED
  BY <1>2, <1>3, <1>4

\* The initial state is one of the store.
LEMMA InitImplements == Init => Store!Init
<1> SUFFICES ASSUME Init PROVE Store!Init
  OBVIOUS
<1>1. Data = [r \in Row |-> None]
  BY DEF Init, Data
<1>2. [r \in Row |-> ToSet(list[r])] = [r \in Row |-> {}]
  BY DEF Init, ToSet
<1> QED
  BY <1>1, <1>2 DEF Init, Store!Init, Store!Table, Table

\* A DAO's init is that of the store.
LEMMA DaoInitImplements ==
    ASSUME RInv, NEW S \in DaoLoads, DaoInit(S)
    PROVE  Store!DaoInit(S)
<1>0. /\ path' = path \union S /\ S \intersect path = {} /\ S \subseteq Table
      /\ UNCHANGED <<loads, added, stat, hash, incomplete, bytes, list>>
  BY TableAssumption DEF DaoInit
<1>a. PICK loaded \in FirstRows(S), torn \in SUBSET (S \intersect Torn) :
       \E content \in [loaded -> UNION {[ColumnsOf(t) -> Value] : t \in S}] :
        /\ \A r \in loaded : DOMAIN content[r] = ColumnsOf(Home[r])
        /\ base' = base \union loaded
        /\ rows' = [r \in Row |-> IF r \in loaded THEN content[r] ELSE rows[r]]
        /\ file' = [t \in Table |->
            IF t \notin S THEN file[t]
            ELSE Printed(t, RowsOf(t) \intersect loaded, content)
                 \o (IF t \in torn THEN Malformed(t) ELSE <<>>)]
  BY Zenon DEF DaoInit
<1>1. PICK content \in [loaded -> UNION {[ColumnsOf(t) -> Value] : t \in S}] :
        /\ \A r \in loaded : DOMAIN content[r] = ColumnsOf(Home[r])
        /\ base' = base \union loaded
        /\ rows' = [r \in Row |-> IF r \in loaded THEN content[r] ELSE rows[r]]
  BY Zenon, <1>a
<1>2. loaded \subseteq Row /\ \A r \in loaded : Home[r] \in S
  BY DEF FirstRows
<1>3. loaded \in SUBSET {r \in Row \ (base \union added) : Home[r] \in S}
  BY <1>0, <1>2 DEF RInv, Shape
<1>4. ASSUME NEW r \in loaded PROVE content[r] \in [ColumnsOf(Home[r]) -> Value]
  <2>1. content[r] \in UNION {[ColumnsOf(t) -> Value] : t \in S}
    OBVIOUS
  <2>2. PICK t \in S : content[r] \in [ColumnsOf(t) -> Value]
    BY <2>1
  <2>3. DOMAIN content[r] = ColumnsOf(Home[r])
    BY <1>1
  <2> QED
    BY <2>2, <2>3
<1>5. Data' = [r \in Row |-> IF r \in loaded THEN content[r] ELSE Data[r]]
  <2>1. ASSUME NEW r \in Row PROVE Data'[r] = IF r \in loaded THEN content[r] ELSE Data[r]
    <3>1. buf'[r] = buf[r] /\ offset'[r] = offset[r]
      BY <1>0 DEF bytes
    <3>2. rows'[r] = IF r \in loaded THEN content[r] ELSE rows[r]
      BY <1>1
    <3>3. CASE r \in loaded
      <4>1. buf'[r] = None
        BY <1>3, <3>1, <3>3 DEF RInv, BufInv
      <4> QED
        BY <3>2, <3>3, <4>1 DEF Data
    <3>4. CASE r \notin loaded
      BY <3>1, <3>2, <3>4, DataStays
    <3> QED
      BY <3>3, <3>4
  <2>2. Data' = [r \in Row |-> Data'[r]]
    BY DEF Data
  <2> QED
    BY <2>1, <2>2
<1>6. \A t : Store!Contents(t) = [ColumnsOf(t) -> Value]
  BY DEF Store!Contents, Store!ColumnsOf, ColumnsOf
<1>7. content \in [loaded -> UNION {Store!Contents(t) : t \in S}]
  BY <1>6
<1>8. \A r \in loaded : content[r] \in Store!Contents(Home[r])
  BY <1>4, <1>6
<1>9. \E R \in SUBSET {r \in Row \ (base \union added) : Home[r] \in S} :
       \E contents \in [R -> UNION {Store!Contents(t) : t \in S}] :
        /\ \A r \in R : contents[r] \in Store!Contents(Home[r])
        /\ base' = base \union R
        /\ Data' = [r \in Row |-> IF r \in R THEN contents[r] ELSE Data[r]]
  BY <1>1, <1>3, <1>5, <1>7, <1>8, Zenon
<1> QED
  BY <1>0, <1>9 DEF Store!DaoInit, Store!loads, loads

\* The bytes init gives a row are those of the columns it had.
LEMMA InitDataReads ==
    ASSUME RInv, NEW hashOn, NEW reverseOn, InitData(hashOn, reverseOn)
    PROVE  /\ Data' = Data
           /\ \A r \in base : Home[r] \in hasData' =>
                \A c \in ColumnsOf(Home[r]) : Column(r, c)' = Data[r][c]
<1>1. /\ stuck = {}
      /\ buf' = [r \in Row |-> IF r \in Read THEN TextOf(r) ELSE buf[r]]
      /\ offset' = [r \in Row |->
                    IF r \in Read THEN Offsets(Home[r], TextOf(r)) ELSE offset[r]]
      /\ UNCHANGED <<path, base, added, stat, rows, file, block>>
  BY DEF InitData
<1>2. Loading
  BY <1>1, LoadingIs
<1>3. ASSUME NEW r \in Row
      PROVE  /\ Data'[r] = Data[r]
             /\ r \in base /\ Home[r] \in hasData' =>
                    \A c \in ColumnsOf(Home[r]) : Column(r, c)' = Data[r][c]
  <2>1. CASE r \in Read
    <3>1. r \in base /\ RowText(r, rows[r]) /\ buf[r] = None
      BY <1>2, <2>1 DEF Loading
    <3>2. rows[r] \in [ColumnsOf(Home[r]) -> Value]
      BY <3>1 DEF RInv, Shape
    <3>3. Bytes(Home[r], TextOf(r), Offsets(Home[r], TextOf(r)), rows[r]) /\ TextOf(r) # None
      BY <3>1, <3>2, TextRead
    <3>4. buf'[r] = TextOf(r) /\ offset'[r] = Offsets(Home[r], TextOf(r))
      BY <1>1, <2>1
    <3>5. buf'[r] # None /\ Bytes(Home[r], buf'[r], offset'[r], rows[r])
      BY <3>3, <3>4
    <3>6. /\ Data'[r] = rows[r]
          /\ \A c \in ColumnsOf(Home[r]) : Column(r, c)' = rows[r][c]
      BY <3>5, DataWritten
    <3>7. Data[r] = rows[r]
      BY <3>1 DEF Data
    <3> QED
      BY <3>6, <3>7
  <2>2. CASE r \notin Read
    <3>1. buf'[r] = buf[r] /\ offset'[r] = offset[r] /\ rows'[r] = rows[r]
      BY <1>1, <2>2
    <3>2. /\ Data'[r] = Data[r]
          /\ \A c \in ColumnsOf(Home[r]) : Column(r, c)' = Column(r, c)
      BY <3>1, DataStays
    <3>3. ASSUME r \in base, Home[r] \in hasData' PROVE buf[r] # None
      <4>1. hasData' = hasData \union (Reached \ {Stop})
        BY DEF InitData
      <4>2. Home[r] \in hasData
        BY <1>2, <2>2, <3>3, <4>1 DEF Loading
      <4> QED
        BY <3>3, <4>2 DEF RInv, BufInv
    <3>4. buf[r] # None => \A c \in ColumnsOf(Home[r]) : Column(r, c) = Data[r][c]
      BY DEF Data
    <3> QED
      BY <3>2, <3>3, <3>4
  <2> QED
    BY <2>1, <2>2
<1>4. Data' = [r \in Row |-> Data'[r]] /\ Data = [r \in Row |-> Data[r]]
  BY DEF Data
<1>5. base \subseteq Row
  BY DEF RInv, Shape
<1> QED
  BY <1>3, <1>4, <1>5

\* The hash indexes of the tables init comes to.
LEMMA IndexImplements ==
    ASSUME RInv, stuck = {}, NEW t \in Reached
    PROVE  IndexRows(t) = Store!IndexRows(t)
<1>1. Loading
  BY LoadingIs
<1>2. ASSUME NEW k \in Value
      PROVE  {r \in Read : Home[r] = t /\ CStr(TextOf(r), 0) = k}
             = {r \in Store!RowsOf(t) : Data[r][KeyColumn] = k}
  <2>1. ASSUME NEW r \in base, Home[r] = t
        PROVE  r \in Read /\ CStr(TextOf(r), 0) = Data[r][KeyColumn]
    <3>1. r \in Read /\ r \in Row /\ RowText(r, rows[r]) /\ buf[r] = None
      BY <1>1, <2>1 DEF Loading, RInv, Shape
    <3>2. rows[r] \in [ColumnsOf(Home[r]) -> Value]
      BY DEF RInv, Shape
    <3>3. Bytes(Home[r], TextOf(r), Offsets(Home[r], TextOf(r)), rows[r])
      BY <3>1, <3>2, TextRead
    <3>4. ReadAt(Home[r], TextOf(r), Offsets(Home[r], TextOf(r)), rows[r])
      BY <3>1, <3>3, RowAssumption, BytesGive
    <3>5. 0 \in ColumnsOf(Home[r])
      BY <3>1, RowAssumption, TableAssumption DEF ColumnsOf
    <3>6. CStr(TextOf(r), 0) = rows[r][0]
      BY <3>4, <3>5 DEF ReadAt, KeyColumn
    <3>7. Data[r] = rows[r]
      BY <3>1 DEF Data
    <3> QED
      BY <3>1, <3>6, <3>7 DEF KeyColumn
  <2>2. Read \subseteq base
    BY DEF Read
  <2> QED
    BY <2>1, <2>2 DEF Store!RowsOf
<1>3. \A S : First(S) = Store!First(S)
  BY DEF First, Store!First, Min
<1>4. ASSUME NEW k \in Value
      PROVE  First({r \in Read : Home[r] = t /\ CStr(TextOf(r), 0) = k})
             = Store!First({r \in Store!RowsOf(t) : Data[r][KeyColumn] = k})
  BY <1>2, <1>3
<1> QED
  BY <1>4 DEF IndexRows, Store!IndexRows, Store!KeyColumn, KeyColumn

\* The references init enters, and the keys it finds no row for.
LEMMA EntriesImplement ==
    ASSUME RInv, NEW T, T \subseteq hasData',
           \A r \in base : Home[r] \in hasData' =>
                \A c \in ColumnsOf(Home[r]) : Column(r, c)' = Data[r][c]
    PROVE  /\ \A n : {e \in References(T) : Target(e)' = n}
                     = Store!EntriesFor(n, T, hash')
           /\ {<<Home[e[2]], Column(e[2], KeyColumn)'>> :
                    e \in {x \in References(T) : Target(x)' = None}}
              = Store!Unresolved(T, hash')
<1>1. ASSUME NEW r \in base
      PROVE  /\ Home[r] \in Table /\ 0 \in ColumnsOf(Home[r])
             /\ \A c \in ForeignKeys(r) : c \in ColumnsOf(Home[r]) /\ c \in Store!Column
  <2>1. r \in Row
    BY DEF RInv, Shape
  <2>2. Home[r] \in Table /\ 0 \in ColumnsOf(Home[r])
    BY <2>1, RowAssumption, TableAssumption DEF ColumnsOf
  <2>3. \A c \in ForeignKeys(r) : c \in ColumnsOf(Home[r])
    BY <2>2, ForeignAssumption DEF ForeignKeys
  <2>4. ColumnsOf(Home[r]) \subseteq Store!Column
    BY <2>2 DEF Store!Column, Store!Table, Store!ColumnsOf, Table, ColumnsOf
  <2> QED
    BY <2>2, <2>3, <2>4
<1>2. ASSUME NEW r \in base, Home[r] \in T, NEW c \in ForeignKeys(r)
      PROVE  Target(<<c, r>>)' = hash'[Foreign[Home[r]][c]][Data[r][c]]
  <2>1. Column(r, c)' = Data[r][c]
    BY <1>1, <1>2
  <2>2. Target(<<c, r>>)' = hash'[Foreign[Home[r]][c]][Column(r, c)']
    BY DEF Target
  <2> QED
    BY <2>1, <2>2
<1>3. References(T) = {e \in Store!Column \X base : Home[e[2]] \in T /\ e[1] \in ForeignKeys(e[2])}
  BY <1>1 DEF References
<1>4. ASSUME NEW e \in References(T)
      PROVE  /\ e = <<e[1], e[2]>> /\ e[2] \in base /\ Home[e[2]] \in T /\ e[1] \in ForeignKeys(e[2])
             /\ Target(e)' = hash'[Foreign[Home[e[2]]][e[1]]][Data[e[2]][e[1]]]
             /\ Column(e[2], KeyColumn)' = Data[e[2]][KeyColumn]
  <2>1. e = <<e[1], e[2]>> /\ e[2] \in base /\ Home[e[2]] \in T /\ e[1] \in ForeignKeys(e[2])
    BY <1>3
  <2>2. Target(<<e[1], e[2]>>)' = hash'[Foreign[Home[e[2]]][e[1]]][Data[e[2]][e[1]]]
    BY <1>2, <2>1
  <2>3. Column(e[2], KeyColumn)' = Data[e[2]][KeyColumn]
    BY <1>1, <2>1 DEF KeyColumn
  <2> QED
    BY <2>1, <2>2, <2>3
<1>5. ASSUME NEW n
      PROVE  {e \in References(T) : Target(e)' = n} = Store!EntriesFor(n, T, hash')
  BY <1>3, <1>4 DEF Store!EntriesFor, Store!ForeignKeys, ForeignKeys
<1>6. {<<Home[e[2]], Column(e[2], KeyColumn)'>> :
            e \in {x \in References(T) : Target(x)' = None}}
      = {<<Home[e[2]], Data[e[2]][KeyColumn]>> :
            e \in {x \in References(T) :
                hash'[Foreign[Home[x[2]]][x[1]]][Data[x[2]][x[1]]] = None}}
  BY <1>4
<1>7. {<<Home[e[2]], Data[e[2]][KeyColumn]>> :
            e \in {x \in References(T) :
                hash'[Foreign[Home[x[2]]][x[1]]][Data[x[2]][x[1]]] = None}}
      = Store!Unresolved(T, hash')
  <2> DEFINE lost(r, c) == hash'[Foreign[Home[r]][c]][Data[r][c]] = None
             L == {x \in References(T) : lost(x[2], x[1])}
             R == {x \in base : Home[x] \in T /\ \E c \in ForeignKeys(x) : lost(x, c)}
  <2>1. \A e \in L : e[2] \in R
    BY <1>4
  <2>2. ASSUME NEW r \in R PROVE \E e \in L : e[2] = r
    <3>1. PICK c \in ForeignKeys(r) : lost(r, c)
      OBVIOUS
    <3>2. <<c, r>> \in References(T)
      BY <1>1, <1>3
    <3>3. <<c, r>>[1] = c /\ <<c, r>>[2] = r
      OBVIOUS
    <3>4. <<c, r>> \in L
      BY <3>1, <3>2, <3>3
    <3> QED
      BY <3>3, <3>4
  <2>3. Store!Unresolved(T, hash') = {<<Home[r], Data[r][KeyColumn]>> : r \in R}
    BY DEF Store!Unresolved, Store!ForeignKeys, ForeignKeys, Store!KeyColumn, KeyColumn
  <2> HIDE DEF L, R
  <2>4. {<<Home[e[2]], Data[e[2]][KeyColumn]>> : e \in L} = {<<Home[r], Data[r][KeyColumn]>> : r \in R}
    BY <2>1, <2>2
  <2> QED
    BY <2>3, <2>4 DEF L
<1>8. {<<Home[e[2]], Column(e[2], KeyColumn)'>> :
            e \in {x \in References(T) : Target(x)' = None}}
      = Store!Unresolved(T, hash')
  BY <1>6, <1>7, Zenon
<1> QED
  BY <1>5, <1>8

Revs == [n \in Row |-> ToSet(list[n])]

\* init_data is that of the store, which fails at the table the walk fails at.
LEMMA InitDataImplements ==
    ASSUME RInv, NEW hashOn \in BOOLEAN, NEW reverseOn \in BOOLEAN, InitData(hashOn, reverseOn)
    PROVE  Store!InitData(hashOn, reverseOn, Stop) /\ Stop \in 0 .. TableNum
<1>1. /\ stuck = {}
      /\ hasData' = hasData \union (Reached \ {Stop})
      /\ stuck' = {Stop} \intersect Table
      /\ hash' = IndexAfter(hashOn)
      /\ UNCHANGED <<path, base, added, stat, rows, file, block>>
  BY DEF InitData
<1>2. Loading
  BY <1>1, LoadingIs
<1>3. TableNum \in Nat /\ Reached \subseteq Table /\ TableNum \notin Table /\ path \subseteq Table
  <2>1. TableNum \in Nat /\ TableNum \notin Table
    BY TableAssumption DEF Table
  <2>2. path \subseteq Table /\ Reached \subseteq path
    BY DEF Reached, RInv, Shape
  <2> QED
    BY <2>1, <2>2
<1>4. Stop \in 0 .. TableNum /\ Stop \in ((path \ hasData) \intersect Torn) \union {TableNum}
  BY <1>2, <1>3 DEF Loading, Table
<1>5. Reached = Store!Reached(Stop)
  BY DEF Reached, Store!Reached
<1>6. Data' = Data
  BY InitDataReads
<1>7. \A r \in base : Home[r] \in hasData' =>
        \A c \in ColumnsOf(Home[r]) : Column(r, c)' = Data[r][c]
  BY InitDataReads
<1>8. hash' = Store!IndexAfter(hashOn, Stop)
  <2>1. \A t \in Reached : IndexRows(t) = Store!IndexRows(t)
    BY <1>1, IndexImplements
  <2> QED
    BY <1>1, <1>5, <2>1 DEF IndexAfter, Store!IndexAfter, Store!Table, Table
<1>9. hasData' = Store!Loaded(Stop)
  BY <1>1, <1>5 DEF Store!Loaded
<1>10. stuck' = {} <=> Stop = TableNum
  BY <1>1, <1>2, <1>3 DEF Loading
<1> DEFINE T == hasData' \ hasRev
<1>11. /\ \A n : {e \in References(T) : Target(e)' = n} = Store!EntriesFor(n, T, hash')
       /\ {<<Home[e[2]], Column(e[2], KeyColumn)'>> :
                e \in {x \in References(T) : Target(x)' = None}}
          = Store!Unresolved(T, hash')
  <2>1. T \subseteq hasData'
    OBVIOUS
  <2> HIDE DEF T
  <2> QED
    BY <1>7, <2>1, EntriesImplement
<1>12. CASE Stop = TableNum /\ hashOn /\ reverseOn
  <2>1. /\ hasRev' = hasData'
        /\ list' = ListsAfter(T)
        /\ incomplete' = incomplete \union
                {<<Home[e[2]], Column(e[2], KeyColumn)'>> :
                    e \in {x \in References(T) : Target(x)' = None}}
    BY <1>10, <1>12 DEF InitData, ListsAfter
  <2> HIDE DEF T
  <2>2. \A n \in Row : Linked(n, T)
    BY LinkedIs DEF RInv
  <2>3. ASSUME NEW n \in Row
        PROVE  ToSet(list'[n]) = ToSet(list[n]) \union Store!EntriesFor(n, T, hash')
    <3>1. list'[n] = list[n] \o Arranged({e \in References(T) : Target(e)' = n}, WalkOrder(T))
      BY <2>1 DEF ListsAfter
    <3>2. ToSet(list'[n]) = ToSet(list[n]) \union {e \in References(T) : Target(e)' = n}
      BY <2>2, <3>1 DEF Linked
    <3>3. {e \in References(T) : Target(e)' = n} = Store!EntriesFor(n, T, hash')
      BY <1>11
    <3> QED
      BY <3>2, <3>3, Zenon
  <2>4. Revs' = [n \in Row |-> Revs[n] \union Store!EntriesFor(n, T, hash')]
    BY <2>3 DEF Revs
  <2>5. incomplete' = incomplete \union Store!Unresolved(T, hash')
    BY <1>11, <2>1, Zenon
  <2>6. T = Store!Loaded(Stop) \ hasRev
    BY <1>9 DEF T
  <2> QED
    BY <1>1, <1>4, <1>6, <1>8, <1>9, <1>12, <2>1, <2>4, <2>5, <2>6
       DEF Store!InitData, Store!files, Revs, Store!Table, Table
<1>13. CASE ~(Stop = TableNum /\ hashOn /\ reverseOn)
  <2>1. UNCHANGED <<hasRev, list, incomplete>>
    BY <1>10, <1>13 DEF InitData
  <2>2. Revs' = Revs
    BY <2>1 DEF Revs
  <2> QED
    BY <1>1, <1>4, <1>6, <1>8, <1>9, <1>13, <2>1, <2>2
       DEF Store!InitData, Store!files, Revs, Store!Table, Table
<1> QED
  BY <1>4, <1>12, <1>13

\* add is that of the store.
LEMMA AddImplements ==
    ASSUME RInv, NEW t \in Table, Add(t)
    PROVE  Store!Add(t)
<1> DEFINE free == RowsOf(t) \ (base \union added)
           r == Min(free)
<1>1. /\ t \in hasData \union stuck /\ free # {}
      /\ added' = added \union {r} /\ stat' = [stat EXCEPT ![r] = "UPDATE_ROW"]
      /\ UNCHANGED <<path, loads, base, hash, incomplete, rows, file, bytes, list>>
  BY DEF Add
<1>2. r \in Row \ (base \union added) /\ Home[r] = t
  <2>1. free \subseteq Nat
    BY RowAssumption DEF RowsOf
  <2>2. r \in free
    <3> HIDE DEF free
    <3>1. \E x \in free : \A y \in free : x <= y
      BY <1>1, <2>1, LeastExists
    <3> QED
      BY <3>1 DEF Min
  <2> HIDE DEF r
  <2> QED
    BY <2>2 DEF RowsOf
<1> HIDE DEF r, free
<1>3. Data' = Data
  <2>1. \A x \in Row : Data'[x] = Data[x]
    BY <1>1, DataStays DEF bytes
  <2>2. Data' = [x \in Row |-> Data'[x]] /\ Data = [x \in Row |-> Data[x]]
    BY DEF Data
  <2> QED
    BY <2>1, <2>2
<1>4. Revs' = Revs
  BY <1>1 DEF Revs
<1> QED
  BY <1>1, <1>2, <1>3, <1>4 DEF Store!Add, Store!files, Store!loads, loads, Revs

\* set_column_data is that of the store.
LEMMA SetColumnImplements ==
    ASSUME RInv, NEW r \in Row, NEW v \in Value, NEW c \in ColumnsOf(Home[r]),
           SetColumn(r, c, v)
    PROVE  Store!SetColumn(r, c, v) /\ c \in Store!Column
<1> DEFINE text == Copied(r, c, v)
           t == Home[r]
<1>1. /\ r \in Live /\ ~(c = KeyColumn /\ buf[r] # None)
      /\ hash' = IF c = KeyColumn THEN [hash EXCEPT ![t] = HashSet(@, v, r)] ELSE hash
      /\ buf' = [buf EXCEPT ![r] = text]
      /\ offset' = [offset EXCEPT ![r] = Offsets(t, text)]
      /\ stat' = [stat EXCEPT ![r] = "UPDATE_ROW"]
      /\ UNCHANGED <<path, loads, base, added, incomplete, rows, file>>
  BY DEF SetColumn
<1>2. Bytes(t, text, Offsets(t, text), WrittenRow(r, c, v)) /\ text # None
  BY WrittenIs DEF Written
<1> HIDE DEF text
<1>3. t \in Table /\ r \in base \union added
  BY <1>1, RowAssumption DEF Live
<1>4. DataOf(r)
  BY <1>1, DataIs
<1>5. Live = Store!Live
  BY DEF Live, Store!Live
<1>6. Data' = [Data EXCEPT ![r] = Store!Written(r, c, v)]
  <2>1. Data'[r] = WrittenRow(r, c, v)
    <3>1. buf'[r] = text /\ offset'[r] = Offsets(t, text)
      BY <1>1 DEF RInv, Shape
    <3>2. buf'[r] # None /\ Bytes(Home[r], buf'[r], offset'[r], WrittenRow(r, c, v))
      BY <1>2, <3>1
    <3> QED
      BY <3>2, DataWritten
  <2>2. WrittenRow(r, c, v) = Store!Written(r, c, v)
    BY <1>4 DEF DataOf, WrittenRow, Store!Written, Store!ColumnsOf, ColumnsOf
  <2>3. ASSUME NEW x \in Row, x # r PROVE Data'[x] = Data[x]
    <3>1. buf'[x] = buf[x] /\ offset'[x] = offset[x] /\ rows'[x] = rows[x]
      BY <1>1, <2>3 DEF RInv, Shape
    <3> QED
      BY <3>1, DataStays
  <2>4. Data' = [x \in Row |-> Data'[x]] /\ Data = [x \in Row |-> Data[x]]
    BY DEF Data
  <2> QED
    BY <2>1, <2>2, <2>3, <2>4
<1>7. Target(<<c, r>>) = Store!Referent(r, c, Store!OldValue(r, c))
  <2>1. Target(<<c, r>>) = hash[Foreign[Home[r]][c]][Column(r, c)]
    BY DEF Target
  <2>2. Column(r, c) = Store!OldValue(r, c)
    BY <1>4 DEF DataOf, Store!OldValue
  <2> QED
    BY <2>1, <2>2 DEF Store!Referent, Store!Lookup
<1>8. Revs' = IF c \in Store!ForeignKeys(r)
              THEN [n \in Row |->
                      LET kept == IF n = Store!Referent(r, c, Store!OldValue(r, c))
                                  THEN Store!DelReverse(Revs[n], r) ELSE Revs[n]
                      IN  kept \union {e \in {<<c, r>>} : n = Store!Referent(r, c, v)}]
              ELSE Revs
  <2>1. CASE c \notin ForeignKeys(r)
    <3>1. list' = list
      BY <2>1 DEF SetColumn
    <3> QED
      BY <2>1, <3>1 DEF Revs, Store!ForeignKeys, ForeignKeys
  <2>2. CASE c \in ForeignKeys(r)
    <3>1. list' = [n \in Row |-> ListSet(n, r, c, v)]
      BY <2>2 DEF SetColumn, ListSet, KeptOf
    <3>2. \A n \in Row : Relinked(n, r, c, v)
      BY <1>3, <2>2, RelinkedIs DEF RInv
    <3>3. hash[Foreign[Home[r]][c]][v] = Store!Referent(r, c, v)
      BY DEF Store!Referent, Store!Lookup
    <3>4. ASSUME NEW n \in Row
          PROVE  ToSet(list'[n]) =
                   (IF n = Store!Referent(r, c, Store!OldValue(r, c))
                    THEN Store!DelReverse(ToSet(list[n]), r) ELSE ToSet(list[n]))
                   \union {e \in {<<c, r>>} : n = Store!Referent(r, c, v)}
      <4>1. ToSet(list'[n]) = ToSet(ListSet(n, r, c, v))
        BY <3>1
      <4>2. ToSet(ListSet(n, r, c, v)) =
             (IF n = Target(<<c, r>>) THEN {e \in ToSet(list[n]) : e[2] # r} ELSE ToSet(list[n]))
             \union {e \in {<<c, r>>} : n = hash[Foreign[Home[r]][c]][v]}
        BY <3>2 DEF Relinked
      <4> QED
        BY <1>7, <3>3, <4>1, <4>2 DEF Store!DelReverse
    <3> QED
      BY <2>2, <3>4 DEF Revs, Store!ForeignKeys, ForeignKeys
  <2> QED
    BY <2>1, <2>2
<1>9. c \in Store!ColumnsOf(Home[r]) /\ c \in Store!Column
  BY <1>3 DEF Store!Column, Store!Table, Store!ColumnsOf, Table, ColumnsOf
<1>10. Store!Settable(r, c)
  BY <1>1, <1>4 DEF DataOf, Store!Settable, Store!KeyColumn, KeyColumn
<1>11. hash' = IF c = Store!KeyColumn
               THEN [hash EXCEPT ![Home[r]] = Store!HashSet(@, v, r)] ELSE hash
  BY <1>1 DEF Store!KeyColumn, KeyColumn, Store!HashSet, HashSet
<1> QED
  BY <1>1, <1>5, <1>6, <1>8, <1>9, <1>10, <1>11
     DEF Store!SetColumn, Store!files, Store!loads, loads, Revs

\* del is that of the store.
LEMMA DelImplements ==
    ASSUME RInv, NEW r \in Row, Del(r)
    PROVE  Store!Del(r)
<1>1. /\ r \in Live /\ list[r] = <<>> /\ (buf[r] # None \/ ForeignKeys(r) = {})
      /\ list' = [n \in Row |-> UnlinkedList(n, r)]
      /\ stat' = [stat EXCEPT ![r] = "DELETE_ROW"]
      /\ UNCHANGED <<path, loads, base, added, hash, incomplete, rows, file, bytes>>
  BY DEF Del, UnlinkedList
<1>2. DataOf(r)
  BY <1>1, DataIs
<1>3. r \in Store!Live
  BY <1>1 DEF Live, Store!Live
<1>4. Data' = Data
  <2>1. \A x \in Row : Data'[x] = Data[x]
    BY <1>1, DataStays DEF bytes
  <2>2. Data' = [x \in Row |-> Data'[x]] /\ Data = [x \in Row |-> Data[x]]
    BY DEF Data
  <2> QED
    BY <2>1, <2>2
<1>5. ASSUME NEW c \in ForeignKeys(r)
      PROVE  Target(<<c, r>>) = Store!Referent(r, c, Data[r][c])
  <2>1. Home[r] \in Table
    BY RowAssumption
  <2>2. c \in ColumnsOf(Home[r])
    BY <2>1, ForeignAssumption DEF ForeignKeys
  <2>3. Column(r, c) = Data[r][c]
    BY <1>1, <1>2, <2>2 DEF DataOf
  <2> QED
    BY <2>3 DEF Target, Store!Referent, Store!Lookup
<1>6. Revs' = [n \in Row |->
                IF \E c \in Store!ForeignKeys(r) : n = Store!Referent(r, c, Data[r][c])
                THEN Store!DelReverse(Revs[n], r) ELSE Revs[n]]
  <2>1. ASSUME NEW n \in Row
        PROVE  ToSet(list'[n]) =
                 IF \E c \in ForeignKeys(r) : n = Store!Referent(r, c, Data[r][c])
                 THEN Store!DelReverse(ToSet(list[n]), r) ELSE ToSet(list[n])
    <3>1. list[n] \in Seq(Entry)
      BY DEF RInv, Shape
    <3>2. EntriesDropped(Entry, list[n], r)
      BY <3>1, DelReverseIs
    <3>3. list'[n] = UnlinkedList(n, r)
      BY <1>1
    <3>4. (\E c \in ForeignKeys(r) : n = Store!Referent(r, c, Data[r][c]))
          <=> (\E c \in ForeignKeys(r) : Target(<<c, r>>) = n)
      BY <1>5
    <3> QED
      BY <3>2, <3>3, <3>4 DEF EntriesDropped, UnlinkedList, Store!DelReverse
  <2> QED
    BY <2>1 DEF Revs, Store!ForeignKeys, ForeignKeys
<1>7. ~Store!Referenced(r)
  <2>1. ToSet(<<>>) = {}
    BY DEF ToSet
  <2>2. r \in Row
    OBVIOUS
  <2> QED
    BY <1>1, <2>1 DEF Store!Referenced
<1>8. Data[r] # None \/ Store!ForeignKeys(r) = {}
  BY <1>1, <1>2 DEF DataOf, Store!ForeignKeys, ForeignKeys
<1> QED
  BY <1>1, <1>3, <1>4, <1>6, <1>7, <1>8 DEF Store!Del, Store!files, Store!loads, loads, Revs

\* Every step is a step of the store, or leaves it as it is.
LEMMA StepImplements == RInv /\ [Next]_vars => [Store!Next]_(Store!vars)
<1> SUFFICES ASSUME RInv, [Next]_vars PROVE [Store!Next]_(Store!vars)
  OBVIOUS
<1>1. CASE \E S \in DaoLoads : DaoInit(S)
  BY <1>1, DaoInitImplements DEF Store!Next
<1>2. CASE \E m \in Modes : InitData(m[1], m[2])
  <2>1. PICK m \in Modes : InitData(m[1], m[2])
    BY <1>2
  <2>2. m[1] \in BOOLEAN /\ m[2] \in BOOLEAN
    BY TableAssumption
  <2>3. Store!InitData(m[1], m[2], Stop) /\ Stop \in 0 .. TableNum
    BY <2>1, <2>2, InitDataImplements
  <2> QED
    BY <2>3 DEF Store!Next
<1>3. CASE \E t \in Table : Add(t)
  BY <1>3, AddImplements DEF Store!Next, Store!Table, Table
<1>4. CASE \E r \in Row, v \in Value : \E c \in ColumnsOf(Home[r]) : SetColumn(r, c, v)
  BY <1>4, SetColumnImplements DEF Store!Next
<1>5. CASE \E r \in Row : Del(r)
  BY <1>5, DelImplements DEF Store!Next
<1>6. CASE UNCHANGED vars
  <2>1. /\ UNCHANGED <<path, hasData, hasRev, stuck, base, added, stat, hash, incomplete>>
        /\ UNCHANGED <<rows, buf, offset, list>>
    BY <1>6 DEF vars
  <2>2. Data' = Data /\ Revs' = Revs
    BY <2>1 DEF Data, Revs, Column, ColumnAt
  <2> QED
    BY <2>1, <2>2 DEF Store!vars, Revs
<1> QED
  BY <1>1, <1>2, <1>3, <1>4, <1>5, <1>6 DEF Next

\* The bytes, offsets and lists implement the store of columns and sets.
THEOREM StoreImplemented == Spec => ImplementsStore
<1>1. Init => RInv /\ Store!Init
  BY InitInv, InitImplements
<1>2. RInv /\ [Next]_vars => RInv'
  BY StepInv
<1>3. RInv /\ [Next]_vars => [Store!Next]_(Store!vars)
  BY StepImplements
<1> QED
  BY <1>1, <1>2, <1>3, PTL DEF Spec, ImplementsStore, Store!Spec
=============================================================================
