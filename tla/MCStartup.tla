----------------------------- MODULE MCStartup -----------------------------
(* A small deployment: two table files and a directory, which holds another  *)
(* file and two further directories, one of which cannot be opened; or, with *)
(* more files than the limit, two directories side by side.  Two tables, of  *)
(* which the second refers to the first.                                     *)
EXTENDS Startup

CONSTANTS top, sub, deep, side, locked

\* A tree below the limit and one above it.
Below == (top :> {1, 3, sub}) @@ (sub :> {2, deep, locked}) @@ (deep :> {})
         @@ (side :> {}) @@ (locked :> {6})
Above == (top :> {1, 3, sub, side}) @@ (sub :> {2, deep}) @@ (deep :> {4, 5})
         @@ (side :> {7}) @@ (locked :> {})
MCTrees == {Below, Above}
MCDir == {top, sub, deep, side, locked}

Link(id, to) == [id |-> id, foreign |-> << <<1, to>>, <<2, to>> >>]
Node(id) == [id |-> id, foreign |-> <<>>]
Conf2(a, b) == (1 :> a) @@ (3 :> b) @@ (6 :> a)
MCConfs == {Conf2(Node(0), Link(1, 0)), Conf2(Link(1, 1), Link(0, 1)),
            Conf2(Link(0, 6), Node(1)), Conf2(Node(0), Bad)}

MCKind == (1 :> "sqlite") @@ (2 :> "mysql") @@ (3 :> "pg")
=============================================================================
