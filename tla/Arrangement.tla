---------------------------- MODULE Arrangement ----------------------------
(* The elements of a finite set one after the other, and sums.  Walks over   *)
(* arrays, sorted lists and accounts are written with these, so that they    *)
(* can be reasoned about.                                                    *)
EXTENDS Integers, FiniteSets, Sequences

\* The elements of S as a sequence in the strict total order lt, a set of pairs:
\* the k-th is the one with k - 1 before it.
Arranged(S, lt) ==
    [k \in 1 .. Cardinality(S) |->
        CHOOSE x \in S : Cardinality({y \in S : <<y, x>> \in lt}) = k - 1]

\* The sum of the first n of a sequence of numbers.
Total(n, amounts) ==
    LET sum[m \in 0 .. n] == IF m = 0 THEN 0 ELSE sum[m - 1] + amounts[m] IN sum[n]

\* A set of numbers in ascending order.
Ascending(S) == Arranged(S, {p \in S \X S : p[1] < p[2]})

\* The elements of a sequence at the places S.
Picked(seq, S) ==
    LET place == Ascending(S) IN [k \in 1 .. Cardinality(S) |-> seq[place[k]]]

\* The first n of a sequence of texts, one after the other.
Joined(n, texts) ==
    LET joined[m \in 0 .. n] == IF m = 0 THEN <<>> ELSE joined[m - 1] \o texts[m]
    IN  joined[n]
=============================================================================
