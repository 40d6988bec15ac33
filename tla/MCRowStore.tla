----------------------------- MODULE MCRowStore -----------------------------
(* Small instances of RowStore: a table 0 of nodes and a table 1 of links,   *)
(* whose columns 1 and 2 both refer to a node, as nav_link's do in           *)
(* storage/conf/ttf_model.                                                   *)
EXTENDS RowStore, TLC

CONSTANTS k1, k2

MCTableNum == 2
MCColumnNum == (0 :> 1) @@ (1 :> 3)
MCForeign == (0 :> <<>>) @@ (1 :> [c \in {1, 2} |-> 0])

\* Two nodes between which the references of a link move.
TwoNodes == (1 :> 0) @@ (2 :> 0) @@ (3 :> 1)
TwoNodesRow == DOMAIN TwoNodes
ThreeValues == {k1, k2, Empty}
Symmetry == Permutations({k1, k2})

\* Two links that share the reverse list of one node.
TwoLinks == (1 :> 0) @@ (2 :> 1) @@ (3 :> 1)
TwoLinksRow == DOMAIN TwoLinks
TwoValues == {k1, Empty}

\* One DAO fills every table, or DAOs fill some of them, in any order.
AllTables == {{0, 1}}
AnyTables == {{0}, {1}, {0, 1}}

DefaultMode == {<<TRUE, TRUE>>}
AllModes == BOOLEAN \X BOOLEAN
=============================================================================
