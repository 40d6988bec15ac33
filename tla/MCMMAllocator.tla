---------------------------- MODULE MCMMAllocator ----------------------------
(* MMAllocator with chunks of 32 bytes instead of 64M, and 8-bit ints.       *)
EXTENDS MMAllocator, TLC

CONSTANTS DATA_FILE, ROW_INDEX

MCFlag == {DATA_FILE, ROW_INDEX}
Symmetry == Permutations(MCFlag)

\* Nothing, what is rounded up, the most that a chunk still holds, the least it
\* does not, and the largest size.
MCSize == {0, 9, 23, 25, 120}
=============================================================================
