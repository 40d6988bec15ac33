----------------------------- MODULE MCJsonDao -----------------------------
(* A plain row, one whose text is not canonical      ("007" in an INT column), *)
(* one whose line is too long and one with a NUL in a string.                *)
EXTENDS JsonDao, TLC

CONSTANTS a, b, rawA, long, nul
MCRow == {a, b, rawA, long, nul}
MCCanon == (a :> a) @@ (b :> b) @@ (rawA :> a) @@ (long :> long) @@ (nul :> b)
MCFirstFiles ==
    UNION {[1 .. n -> {rawA, b, nul, Broken}] : n \in 0 .. 2}
=============================================================================
