------------------------------ MODULE MCDaoSave ------------------------------
(* A small instance of DaoSave: tables 0 and 2 have data, table 1 has not.   *)
EXTENDS DaoSave, TLC

CONSTANTS k1, a, b

OneKey == {k1}
TwoVals == {a, b}

\* Two rows of table 0, so that one or both are added ones, with the same key;
\* an added row of table 1, which is never saved.
MCMaxRows == (0 :> 2) @@ (1 :> 1) @@ (2 :> 0)

\* Bounds: the database has no rows for table 1 and a row added to it is a; no step
\* of a save looks at either.
TableOneSmall ==
    /\ db[1] = [k \in Key |-> None]
    /\ deque[1] \in {<<>>, <<[key |-> k1, val |-> a, stat |-> "UPDATE_ROW"]>>}
=============================================================================
