---------------------------- MODULE MCConfManager ----------------------------
(* Two threads and two tables of configuration.                              *)
EXTENDS ConfManager, TLC

CONSTANTS t1, t2, n1, n2

TwoThreads == {t1, t2}
TwoNames == {n1, n2}
Symmetry == Permutations(TwoThreads) \union Permutations(TwoNames)
=============================================================================
