----------------------------- MODULE MCRowIndex -----------------------------
(* A small instance of RowIndex: a table 0 without rows and a table 1 whose  *)
(* column 2 refers to rows of table 1 itself, so that rows of one file may   *)
(* share a key, refer to themselves and share a reverse list.                *)
EXTENDS RowIndex

MCTableNum == 2
MCColumnNum == (0 :> 1) @@ (1 :> 3)
MCForeign == (0 :> <<>>) @@ (1 :> [c \in {2} |-> 1])
MCHome == [r \in {1, 2} |-> 1]
MCRow == DOMAIN MCHome

\* Values of 0 and 2 bytes: the last column of a row starts at 2 to 6, and
\* offsets reach 7.
MCValue == {<<>>, <<2, 3>>}

AllTables == {{0, 1}}
LinkedOrNot == {<<TRUE, TRUE>>, <<TRUE, FALSE>>}
=============================================================================
