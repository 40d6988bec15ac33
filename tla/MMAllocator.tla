----------------------------- MODULE MMAllocator -----------------------------
(***************************************************************************)
(* The allocator every table manager takes its memory from                 *)
(* (storage/mm_allocator.cpp): blocks are cut one after the other from     *)
(* chunks of EachChunk bytes, a block too large for a chunk gets memory of *)
(* its own, and everything is given back at once.                          *)
(*                                                                         *)
(* The allocations of the C++ runtime are external and may fail.  cur_ is  *)
(* not a variable: until delete_mm it is chunk_[index_ - 1], NULL when     *)
(* that entry is, and nothing is allocated after delete_mm.                *)
(***************************************************************************)
EXTENDS Arrangement, Sequences

CONSTANTS
    EachChunk,   \* EACH_CHUNK, 64M in the code
    MaxChunk,    \* MAX_CHUNK_NUM: what chunk_ and big_chunk_ have room for
    Align,       \* the alignment of blocks, 8 in the code
    IntMod,      \* 2^31 in the code: the int range that the mask leaves
    Size,        \* the sizes that callers ask for
    Flag,        \* MM_FLAG
    MaxBlocks,   \* bound: blocks handed out
    MaxMarks     \* bound: calls of mark_mm_flag

\* Callers keep away from sizes that overflow an int when they are rounded up.
ASSUME AllocatorAssumption ==
    /\ Align \in Nat \ {0}
    /\ EachChunk \in Nat \ {0} /\ EachChunk % Align = 0
    /\ IntMod \in Nat \ {0} /\ IntMod % Align = 0
    /\ MaxChunk \in Nat \ {0}
    /\ Size \subseteq 0 .. IntMod - Align
    /\ MaxBlocks \in Nat /\ MaxMarks \in Nat

VARIABLES
    chunk,     \* the index_ first entries of chunk_
    big,       \* the big_chunk_index_ first entries of big_chunk_
    offset,    \* cur_offset_
    zone,      \* zone_memory_
    released,  \* delete_mm was called
    blocks,    \* history: the blocks handed out, in order
    marks      \* history: the <<size, flag>> of the calls of mark_mm_flag

vars == <<chunk, big, offset, zone, released, blocks, marks>>

Entry == {"held", "NULL"}

\* A block: the array its memory is an entry of, the index (from 1) of that entry,
\* the offset in it, and the size that was asked for.  The array is "NULL" when the
\* entry of chunk_ could not be had: whichever entry that was, the block is at the
\* offset from NULL, where there is no memory.
Block == [array : {"chunk_", "big_chunk_", "NULL"}, entry : Nat \ {0}, at : Nat,
          size : Nat, flag : Flag]

TypeOK ==
    /\ chunk \in Seq(Entry) /\ Len(chunk) \in 1 .. MaxChunk
    /\ big \in Seq(Entry) /\ Len(big) \in 0 .. MaxChunk
    /\ offset \in 0 .. EachChunk - 1
    /\ zone \in [Flag -> Nat]
    /\ released \in BOOLEAN
    /\ blocks \in Seq(Block)
    /\ marks \in Seq(Size \X Flag)

Init ==
    /\ \E e \in Entry : chunk = <<e>>
    /\ big = <<>>
    /\ offset = 0
    /\ zone = [f \in Flag |-> 0]
    /\ released = FALSE
    /\ blocks = <<>>
    /\ marks = <<>>

-----------------------------------------------------------------------------

\* (size + 7) & 0x7ffffff8
RealSizeUnaligned(size) == size                                        \* mutant
RealSizeDown(size) == size - (size % Align)                              \* mutant
RealSize(size) == LET s == (size + Align - 1) % IntMod IN s - (s % Align)

FitsInTotal(real) == real < EachChunk    \* mutant: the space left is not looked at
Fits(real) == real + offset < EachChunk

HandOut(array, entry, at, size, f) ==
    blocks' = Append(blocks, [array |-> array, entry |-> entry, at |-> at,
                              size |-> size, flag |-> f])
ChargeChunk(f, real) == zone' = [zone EXCEPT ![f] = @ + EachChunk]    \* mutant
Charge(f, real) == zone' = [zone EXCEPT ![f] = @ + real]

\* chunk_ and big_chunk_ have MaxChunk entries: the code does not look whether one
\* is left, and neither do the callers, who stay far below (16K chunks are 1T).

\* alloc_big_chunk: when the memory cannot be had the caller gets NULL.
AllocBigChunk(size, f) ==
    LET real == RealSize(size) IN
    /\ real >= EachChunk
    /\ Len(big) < MaxChunk
    /\ \/ /\ big' = Append(big, "held")
          /\ HandOut("big_chunk_", Len(big) + 1, 0, size, f)
          /\ Charge(f, real)
       \/ /\ big' = Append(big, "NULL")
          /\ UNCHANGED <<blocks, zone>>
    /\ UNCHANGED <<chunk, offset, released, marks>>

\* alloc_chunk: the rest of the current chunk is given up, also when the new one
\* cannot be had.
AllocChunk(size, f) ==
    LET real == RealSize(size) IN
    /\ real < EachChunk /\ ~Fits(real)
    /\ Len(chunk) < MaxChunk
    /\ \/ /\ chunk' = Append(chunk, "held")
          /\ offset' = real
          /\ HandOut("chunk_", Len(chunk) + 1, 0, size, f)
          /\ Charge(f, real)
       \/ /\ chunk' = Append(chunk, "NULL")
          /\ offset' = 0
          /\ UNCHANGED <<blocks, zone>>
    /\ UNCHANGED <<big, released, marks>>

\* The last branch of alloc_mm.  After a chunk could not be had cur_ is NULL, and
\* the block is at an offset from NULL: the same one as a block of an earlier chunk
\* that could not be had.
Cur == IF chunk[Len(chunk)] = "held" THEN "chunk_" ELSE "NULL"

AllocHere(size, f) ==
    LET real == RealSize(size) IN
    /\ real < EachChunk /\ Fits(real)
    /\ HandOut(Cur, Len(chunk), offset, size, f)
    /\ offset' = offset + real
    /\ Charge(f, real)
    /\ UNCHANGED <<chunk, big, released, marks>>

alloc_mm(size, f) ==
    /\ ~released /\ Len(blocks) < MaxBlocks
    /\ AllocBigChunk(size, f) \/ AllocChunk(size, f) \/ AllocHere(size, f)

\* mark_mm_flag: memory of another kind, a mapped file, is counted.
mark_mm_flag(size, f) ==
    /\ Len(marks) < MaxMarks
    /\ zone' = [zone EXCEPT ![f] = @ + size]
    /\ marks' = Append(marks, <<size, f>>)
    /\ UNCHANGED <<chunk, big, offset, released, blocks>>

delete_mm ==
    /\ chunk' = [i \in DOMAIN chunk |-> "NULL"]
    /\ big' = [i \in DOMAIN big |-> "NULL"]
    /\ released' = TRUE
    /\ UNCHANGED <<offset, zone, blocks, marks>>

Next ==
    \/ \E size \in Size, f \in Flag : alloc_mm(size, f) \/ mark_mm_flag(size, f)
    \/ delete_mm

Spec == Init /\ [][Next]_vars

-----------------------------------------------------------------------------
(* What callers rely on                                                    *)

\* A block is aligned, and lies within the chunk it is cut from: writing size bytes
\* to it stays inside.  A block of big_chunk_ starts its memory, had for it alone in
\* its rounded size.  A block at an offset from NULL has no memory to lie in; its
\* offsets stay below the size of a chunk all the same.
InBounds ==
    \A i \in DOMAIN blocks : LET b == blocks[i] IN
        /\ b.at % Align = 0
        /\ IF b.array = "big_chunk_"
           THEN b.entry <= Len(big) /\ b.at = 0
           ELSE b.entry <= Len(chunk) /\ b.at + b.size < EachChunk

\* Two blocks of memory that was had share no byte, whatever their sizes, whichever
\* chunks were filled up and whichever allocations failed in between: rows, indexes
\* and changed data never overwrite each other.  Blocks at offsets from NULL are
\* left out: those of two chunks that could not be had coincide.
NoOverlap ==
    \A i, j \in DOMAIN blocks : LET a == blocks[i]  b == blocks[j] IN
        (i < j /\ a.array = b.array /\ a.entry = b.entry /\ a.array # "NULL")
            => a.at + a.size <= b.at

\* zone_memory_ is, for each flag, what was marked with it and the sizes of the
\* blocks it was given, rounded up to the alignment: what print() reports is the
\* memory in use, not the chunks it is cut from, and no failed allocation counts.
RoundedUp(size) == CHOOSE n \in size .. size + Align - 1 : n % Align = 0
Given(f) == [i \in DOMAIN blocks |->
                IF blocks[i].flag = f THEN RoundedUp(blocks[i].size) ELSE 0]
Marked(f) == [i \in DOMAIN marks |-> IF marks[i][2] = f THEN marks[i][1] ELSE 0]
ZoneAccounting ==
    \A f \in Flag :
        zone[f] = Total(Len(blocks), Given(f)) + Total(Len(marks), Marked(f))
=============================================================================
