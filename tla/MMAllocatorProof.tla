-------------------------- MODULE MMAllocatorProof --------------------------
(* Proofs about MMAllocator, for chunks of any size and any alignment.       *)
EXTENDS MMAllocator, NumberFacts, TLAPS

\* A multiple of a positive number leaves no remainder.
LEMMA MultipleRemainder ==
    ASSUME NEW n \in Nat \ {0}, NEW q \in Int
    PROVE  (n * q) % n = 0
<1> DEFINE m == (n * q) % n
           d == (n * q) \div n
<1>1. n * q \in Int
  OBVIOUS
<1>2. m \in 0 .. n - 1 /\ d \in Int /\ n * q = n * d + m
  BY <1>1
<1>3. n * (q - d) = m
  BY <1>2
<1>4. CASE q > d
  <2>1. n * (q - d) >= n * 1
    <3>1. q - d >= 1
      BY <1>2, <1>4
    <3> QED
      BY <1>2, <3>1
  <2> QED
    BY <1>2, <1>3, <2>1
<1>5. CASE q < d
  <2>1. n * (d - q) >= n * 1
    <3>1. d - q >= 1
      BY <1>2, <1>5
    <3> QED
      BY <1>2, <3>1
  <2>2. n * (d - q) = -m
    BY <1>2, <1>3
  <2> QED
    BY <1>2, <2>1, <2>2
<1>6. CASE q = d
  BY <1>2, <1>6
<1> QED
  BY <1>2, <1>4, <1>5, <1>6

\* The sum of two aligned offsets is aligned.
LEMMA AlignedSum ==
    ASSUME NEW x \in Nat, NEW y \in Nat, x % Align = 0, y % Align = 0
    PROVE  (x + y) % Align = 0
<1>1. Align \in Nat \ {0}
  BY AllocatorAssumption
<1>2. /\ x \div Align \in Int /\ x = Align * (x \div Align)
      /\ y \div Align \in Int /\ y = Align * (y \div Align)
  BY <1>1
<1> DEFINE q == x \div Align + y \div Align
<1>3. q \in Int /\ x + y = Align * q
  BY <1>1, <1>2
<1> HIDE DEF q
<1>4. (Align * q) % Align = 0
  BY <1>1, <1>3, MultipleRemainder
<1> QED
  BY <1>3, <1>4

\* Rounding a size up gives a multiple of the alignment that is not smaller.
LEMMA RealSizeRoundsUp ==
    ASSUME NEW size \in Size
    PROVE  /\ size \in Nat
           /\ RealSize(size) \in Nat
           /\ size <= RealSize(size)
           /\ RealSize(size) % Align = 0
<1> DEFINE s == size + Align - 1
<1>1. size \in Nat /\ Align \in Nat \ {0} /\ IntMod \in Nat \ {0} /\ s \in 0 .. IntMod - 1
  BY AllocatorAssumption
<1>2. s % IntMod = s
  BY <1>1
<1>3. RealSize(size) = s - (s % Align)
  BY <1>2 DEF RealSize
<1>4. s % Align \in 0 .. Align - 1 /\ s = Align * (s \div Align) + (s % Align)
  BY <1>1
<1>5. RealSize(size) \in Nat /\ size <= RealSize(size)
  BY <1>1, <1>3, <1>4
<1>6. (s - (s % Align)) % Align = 0
  <2>1. s \div Align \in Int /\ s - (s % Align) = Align * (s \div Align)
    BY <1>1, <1>4
  <2> QED
    BY <1>1, <2>1, MultipleRemainder
<1> QED
  BY <1>1, <1>3, <1>5, <1>6

-----------------------------------------------------------------------------
(* The inductive invariant                                                 *)

\* The blocks of a chunk, had or not, are within it when it is full and below the
\* offset when it is the current one, and a block of big_chunk_ has its entry to
\* itself.
Packed ==
    /\ offset % Align = 0
    /\ \A i \in DOMAIN blocks :
        LET b == blocks[i] IN
        /\ b.at % Align = 0
        /\ b.array # "big_chunk_" =>
             /\ b.entry <= Len(chunk)
             /\ b.at + b.size < EachChunk
             /\ b.entry = Len(chunk) => b.at + b.size <= offset
        /\ b.array = "big_chunk_" => b.entry <= Len(big) /\ b.at = 0
    /\ \A i, j \in DOMAIN blocks :
        (i # j /\ blocks[i].array = "big_chunk_" /\ blocks[j].array = "big_chunk_")
            => blocks[i].entry # blocks[j].entry

IInv == TypeOK /\ Packed /\ NoOverlap

THEOREM InitIInv == Init => IInv
<1> SUFFICES ASSUME Init PROVE IInv
  OBVIOUS
<1>1. TypeOK
  <2>1. chunk \in Seq(Entry) /\ Len(chunk) \in 1 .. MaxChunk
    <3>1. PICK e \in Entry : chunk = <<e>>
      BY DEF Init
    <3>2. <<e>> \in Seq(Entry) /\ Len(<<e>>) = 1
      OBVIOUS
    <3> QED
      BY AllocatorAssumption, <3>1, <3>2
  <2>2. big \in Seq(Entry) /\ Len(big) \in 0 .. MaxChunk
    BY AllocatorAssumption DEF Init
  <2>3. offset \in 0 .. EachChunk - 1
    BY AllocatorAssumption DEF Init
  <2>4. zone \in [Flag -> Nat] /\ released \in BOOLEAN
    BY DEF Init
  <2>5. blocks \in Seq(Block) /\ marks \in Seq(Size \X Flag)
    BY DEF Init
  <2> QED
    BY <2>1, <2>2, <2>3, <2>4, <2>5 DEF TypeOK
<1>2. offset % Align = 0
  BY AllocatorAssumption DEF Init
<1>3. DOMAIN blocks = {}
  BY DEF Init
<1> QED
  BY <1>1, <1>2, <1>3 DEF IInv, Packed, NoOverlap

\* The invariant about blocks survives a step that hands out no block, as long as
\* no chunk is taken back and the current one is not rewound.
LEMMA Unmoved ==
    ASSUME TypeOK, Packed, NoOverlap, blocks' = blocks,
           Len(chunk') \in Nat, Len(chunk') >= Len(chunk),
           Len(big') \in Nat, Len(big') >= Len(big), offset' \in Nat, offset' % Align = 0,
           Len(chunk') = Len(chunk) => offset <= offset'
    PROVE  Packed' /\ NoOverlap'
<1>1. NoOverlap'
  BY DEF NoOverlap
<1>2. ASSUME NEW i \in DOMAIN blocks
      PROVE  /\ blocks[i].at % Align = 0
             /\ blocks[i].array # "big_chunk_" =>
                  /\ blocks[i].entry <= Len(chunk')
                  /\ blocks[i].at + blocks[i].size < EachChunk
                  /\ blocks[i].entry = Len(chunk')
                       => blocks[i].at + blocks[i].size <= offset'
             /\ blocks[i].array = "big_chunk_"
                  => blocks[i].entry <= Len(big') /\ blocks[i].at = 0
  <2>1. /\ blocks[i].entry \in Nat /\ blocks[i].at \in Nat /\ blocks[i].size \in Nat
        /\ Len(chunk) \in Nat /\ Len(big) \in Nat /\ offset \in Nat
    <3>1. blocks[i] \in Block
      BY DEF TypeOK
    <3> QED
      BY AllocatorAssumption, <3>1 DEF TypeOK, Block
  <2> DEFINE e == blocks[i].entry
             top == blocks[i].at + blocks[i].size
  <2>2. /\ blocks[i].at % Align = 0
        /\ blocks[i].array # "big_chunk_" =>
             e <= Len(chunk) /\ top < EachChunk /\ (e = Len(chunk) => top <= offset)
        /\ blocks[i].array = "big_chunk_" => e <= Len(big) /\ blocks[i].at = 0
    BY DEF Packed
  <2>3. e \in Nat /\ top \in Nat
    BY <2>1
  <2> HIDE DEF e, top
  <2>4. blocks[i].array # "big_chunk_" =>
          e <= Len(chunk') /\ top < EachChunk /\ (e = Len(chunk') => top <= offset')
    BY <2>1, <2>2, <2>3
  <2>5. blocks[i].array = "big_chunk_" => e <= Len(big') /\ blocks[i].at = 0
    BY <2>1, <2>2, <2>3
  <2> QED
    BY <2>2, <2>4, <2>5 DEF e, top
<1>3. Packed'
  BY <1>2 DEF Packed
<1> QED
  BY <1>1, <1>3

\* The invariant about blocks survives a step that hands out a block of size bytes
\* on top of the current chunk, at the start of a new one, or of its own memory.
LEMMA OnTop ==
    ASSUME TypeOK, Packed, NoOverlap,
           NEW array \in {"chunk_", "big_chunk_", "NULL"}, NEW entry \in Nat \ {0},
           NEW at \in Nat, NEW size \in Nat, NEW f \in Flag,
           HandOut(array, entry, at, size, f), at % Align = 0,
           array # "big_chunk_" =>
             /\ entry = Len(chunk') /\ at + size < EachChunk /\ at + size <= offset'
             /\ entry = Len(chunk) => at = offset,
           array = "big_chunk_" => entry = Len(big) + 1 /\ entry = Len(big') /\ at = 0,
           Len(chunk') \in Nat, Len(chunk') >= Len(chunk),
           Len(big') \in Nat, Len(big') >= Len(big), offset' \in Nat, offset' % Align = 0,
           Len(chunk') = Len(chunk) => offset <= offset'
    PROVE  Packed' /\ NoOverlap'
<1> DEFINE n == Len(blocks) + 1
           new == [array |-> array, entry |-> entry, at |-> at, size |-> size, flag |-> f]
<1>1. /\ n \in Nat
      /\ DOMAIN blocks' = DOMAIN blocks \union {n}
      /\ \A i \in DOMAIN blocks : i \in Nat /\ i < n /\ blocks'[i] = blocks[i]
      /\ blocks'[n] = new
  <2>1. new \in Block
    BY DEF Block
  <2>2. blocks \in Seq(Block) /\ blocks' = Append(blocks, new)
    BY DEF TypeOK, HandOut
  <2> HIDE DEF new
  <2>3. /\ Len(blocks') = n /\ Len(blocks) \in Nat
        /\ \A i \in 1 .. Len(blocks) : blocks'[i] = blocks[i]
        /\ blocks'[n] = new
    BY <2>1, <2>2
  <2>4. DOMAIN blocks = 1 .. Len(blocks) /\ DOMAIN blocks' = 1 .. Len(blocks')
    BY <2>1, <2>2
  <2> QED
    BY <2>3, <2>4
<1>2. \A i \in DOMAIN blocks :
        blocks[i].entry \in Nat /\ blocks[i].at \in Nat /\ blocks[i].size \in Nat
  <2>1. \A i \in DOMAIN blocks : blocks[i] \in Block
    BY DEF TypeOK
  <2> QED
    BY <2>1 DEF Block
<1>3. /\ new.array = array /\ new.entry = entry /\ new.at = at /\ new.size = size
  OBVIOUS
<1>4. Len(chunk) \in Nat /\ Len(big) \in Nat /\ offset \in Nat
  BY AllocatorAssumption DEF TypeOK
<1> HIDE DEF n, new
<1>5. ASSUME NEW i \in DOMAIN blocks
      PROVE  /\ blocks[i].at % Align = 0
             /\ blocks[i].array # "big_chunk_" =>
                  /\ blocks[i].entry <= Len(chunk)
                  /\ blocks[i].at + blocks[i].size < EachChunk
                  /\ blocks[i].entry = Len(chunk)
                       => blocks[i].at + blocks[i].size <= offset
             /\ blocks[i].array = "big_chunk_"
                  => blocks[i].entry <= Len(big) /\ blocks[i].at = 0
  BY DEF Packed
<1>6. offset' % Align = 0
  OBVIOUS
<1>7. ASSUME NEW i \in DOMAIN blocks'
      PROVE  /\ blocks'[i].at % Align = 0
             /\ blocks'[i].array # "big_chunk_" =>
                  /\ blocks'[i].entry <= Len(chunk')
                  /\ blocks'[i].at + blocks'[i].size < EachChunk
                  /\ blocks'[i].entry = Len(chunk')
                       => blocks'[i].at + blocks'[i].size <= offset'
             /\ blocks'[i].array = "big_chunk_"
                  => blocks'[i].entry <= Len(big') /\ blocks'[i].at = 0
  <2>1. CASE i = n
    BY <1>1, <1>3, <2>1
  <2>2. CASE i \in DOMAIN blocks
    <3> DEFINE b == blocks[i]
    <3>1. blocks'[i] = b
      BY <1>1, <2>2
    <3>2. /\ b.at % Align = 0
          /\ b.array # "big_chunk_" =>
               /\ b.entry <= Len(chunk)
               /\ b.at + b.size < EachChunk
               /\ b.entry = Len(chunk) => b.at + b.size <= offset
          /\ b.array = "big_chunk_" => b.entry <= Len(big) /\ b.at = 0
          /\ b.entry \in Nat /\ b.at + b.size \in Nat
      BY <1>2, <1>5, <2>2
    <3> HIDE DEF b
    <3>3. b.array # "big_chunk_" =>
            b.entry <= Len(chunk') /\ (b.entry = Len(chunk') => b.at + b.size <= offset')
      BY <1>4, <3>2
    <3>4. b.array = "big_chunk_" => b.entry <= Len(big')
      BY <1>4, <3>2
    <3> QED
      BY <3>1, <3>2, <3>3, <3>4
  <2> QED
    BY <1>1, <2>1, <2>2
<1>8. ASSUME NEW i \in DOMAIN blocks', NEW j \in DOMAIN blocks', i # j,
             blocks'[i].array = "big_chunk_", blocks'[j].array = "big_chunk_"
      PROVE  blocks'[i].entry # blocks'[j].entry
  <2>1. CASE i \in DOMAIN blocks /\ j \in DOMAIN blocks
    BY <1>1, <1>8, <2>1 DEF Packed
  <2>2. CASE i = n /\ j \in DOMAIN blocks
    BY <1>1, <1>2, <1>3, <1>4, <1>5, <1>8, <2>2
  <2>3. CASE j = n /\ i \in DOMAIN blocks
    BY <1>1, <1>2, <1>3, <1>4, <1>5, <1>8, <2>3
  <2> QED
    BY <1>1, <1>8, <2>1, <2>2, <2>3
<1>9. ASSUME NEW i \in DOMAIN blocks', NEW j \in DOMAIN blocks', i < j,
             blocks'[i].array = blocks'[j].array, blocks'[i].entry = blocks'[j].entry,
             blocks'[i].array # "NULL"
      PROVE  blocks'[i].at + blocks'[i].size <= blocks'[j].at
  <2>1. CASE i \in DOMAIN blocks /\ j \in DOMAIN blocks
    BY <1>1, <1>9, <2>1 DEF NoOverlap
  <2>2. CASE i = n
    BY <1>1, <1>9, <2>2
  <2>3. CASE j = n /\ i \in DOMAIN blocks
    <3> DEFINE b == blocks[i]
    <3>1. blocks'[i] = b /\ blocks'[j] = new
      BY <1>1, <2>3
    <3>2. b.array = array /\ b.entry = entry /\ b.entry \in Nat
      BY <1>2, <1>3, <1>9, <2>3, <3>1
    <3>3. CASE array # "big_chunk_"
      <4>1. b.entry <= Len(chunk) /\ (b.entry = Len(chunk) => b.at + b.size <= offset)
        BY <1>5, <2>3, <3>2, <3>3
      <4>2. entry = Len(chunk)
        BY <1>4, <3>2, <3>3, <4>1
      <4> QED
        BY <1>3, <3>1, <3>2, <3>3, <4>1, <4>2
    <3>4. CASE array = "big_chunk_"
      <4>1. b.entry <= Len(big)
        BY <1>5, <2>3, <3>2, <3>4
      <4> QED
        BY <1>4, <3>2, <3>4, <4>1
    <3> QED
      BY <3>3, <3>4
  <2> QED
    BY <1>1, <2>1, <2>2, <2>3
<1>10. Packed'
  BY <1>6, <1>7, <1>8 DEF Packed
<1>11. NoOverlap'
  BY <1>9 DEF NoOverlap
<1> QED
  BY <1>10, <1>11

-----------------------------------------------------------------------------
(* One lemma per operation                                                 *)

LEMMA AllocBigChunkStep ==
    ASSUME IInv, NEW size \in Size, NEW f \in Flag, AllocBigChunk(size, f)
    PROVE  IInv'
<1> DEFINE real == RealSize(size)
<1>1. size \in Nat /\ real \in Nat
  BY RealSizeRoundsUp
<1>2. TypeOK /\ Packed /\ NoOverlap
  BY DEF IInv
<1>3. /\ Len(big) < MaxChunk
      /\ \/ /\ big' = Append(big, "held")
            /\ HandOut("big_chunk_", Len(big) + 1, 0, size, f)
            /\ Charge(f, real)
         \/ big' = Append(big, "NULL") /\ UNCHANGED <<blocks, zone>>
      /\ UNCHANGED <<chunk, offset, released, marks>>
  BY DEF AllocBigChunk
<1> HIDE DEF real
<1>4. big \in Seq(Entry) /\ Len(big) \in Nat /\ Len(chunk) \in Nat /\ offset \in Nat
  BY <1>2, AllocatorAssumption DEF TypeOK
<1>5. big' \in Seq(Entry) /\ Len(big') = Len(big) + 1
  BY <1>3, <1>4 DEF Entry
<1>6. offset' % Align = 0 /\ 0 % Align = 0
  BY <1>2, <1>3, AllocatorAssumption DEF Packed
<1>7. Packed' /\ NoOverlap'
  <2>1. CASE HandOut("big_chunk_", Len(big) + 1, 0, size, f)
    <3>1. Len(big) + 1 \in Nat \ {0}
      BY <1>4
    <3> QED
      BY <1>1, <1>2, <1>3, <1>4, <1>5, <1>6, <2>1, <3>1, OnTop
  <2>2. CASE blocks' = blocks
    BY <1>2, <1>3, <1>4, <1>5, <1>6, <2>2, Unmoved
  <2> QED
    BY <1>3, <2>1, <2>2
<1>8. TypeOK'
  <2> DEFINE b == [array |-> "big_chunk_", entry |-> Len(big) + 1, at |-> 0, size |-> size,
                   flag |-> f]
  <2>1. b \in Block
    BY <1>1, <1>4 DEF Block
  <2>2. blocks' = Append(blocks, b) \/ blocks' = blocks
    BY <1>3 DEF HandOut
  <2> HIDE DEF b
  <2>3. blocks' \in Seq(Block)
    BY <1>2, <2>1, <2>2 DEF TypeOK
  <2>4. zone' \in [Flag -> Nat]
    BY <1>1, <1>2, <1>3 DEF TypeOK, Charge
  <2>5. Len(big') \in 0 .. MaxChunk
    BY <1>3, <1>4, <1>5, AllocatorAssumption
  <2> QED
    BY <1>2, <1>3, <1>5, <2>3, <2>4, <2>5 DEF TypeOK
<1> QED
  BY <1>7, <1>8 DEF IInv

LEMMA AllocChunkStep ==
    ASSUME IInv, NEW size \in Size, NEW f \in Flag, AllocChunk(size, f)
    PROVE  IInv'
<1> DEFINE real == RealSize(size)
<1>1. size \in Nat /\ real \in Nat /\ size <= real /\ real % Align = 0
  BY RealSizeRoundsUp
<1>2. TypeOK /\ Packed /\ NoOverlap
  BY DEF IInv
<1>3. /\ real < EachChunk /\ Len(chunk) < MaxChunk
      /\ \/ /\ chunk' = Append(chunk, "held")
            /\ offset' = real
            /\ HandOut("chunk_", Len(chunk) + 1, 0, size, f)
            /\ Charge(f, real)
         \/ chunk' = Append(chunk, "NULL") /\ offset' = 0 /\ UNCHANGED <<blocks, zone>>
      /\ UNCHANGED <<big, released, marks>>
  BY DEF AllocChunk
<1> HIDE DEF real
<1>4. /\ chunk \in Seq(Entry) /\ Len(big) \in Nat /\ Len(chunk) \in Nat
      /\ EachChunk \in Nat \ {0}
  BY <1>2, AllocatorAssumption DEF TypeOK
<1>5. chunk' \in Seq(Entry) /\ Len(chunk') = Len(chunk) + 1
  BY <1>3, <1>4 DEF Entry
<1>6. offset' % Align = 0 /\ 0 % Align = 0 /\ offset' \in 0 .. EachChunk - 1
  BY <1>1, <1>3, <1>4, AllocatorAssumption
<1>7. Packed' /\ NoOverlap'
  <2>1. CASE offset' = real /\ HandOut("chunk_", Len(chunk) + 1, 0, size, f)
    <3>1. Len(chunk) + 1 \in Nat \ {0} /\ Len(chunk) + 1 # Len(chunk)
      BY <1>4
    <3>2. 0 + size < EachChunk /\ 0 + size <= offset'
      BY <1>1, <1>3, <1>4, <2>1
    <3> QED
      BY <1>1, <1>2, <1>3, <1>4, <1>5, <1>6, <2>1, <3>1, <3>2, OnTop
  <2>2. CASE blocks' = blocks
    BY <1>2, <1>3, <1>4, <1>5, <1>6, <2>2, Unmoved
  <2> QED
    BY <1>3, <2>1, <2>2
<1>8. TypeOK'
  <2> DEFINE b == [array |-> "chunk_", entry |-> Len(chunk) + 1, at |-> 0, size |-> size,
                   flag |-> f]
  <2>1. b \in Block
    BY <1>1, <1>4 DEF Block
  <2>2. blocks' = Append(blocks, b) \/ blocks' = blocks
    BY <1>3 DEF HandOut
  <2> HIDE DEF b
  <2>3. blocks' \in Seq(Block)
    BY <1>2, <2>1, <2>2 DEF TypeOK
  <2>4. zone' \in [Flag -> Nat]
    BY <1>1, <1>2, <1>3 DEF TypeOK, Charge
  <2>5. Len(chunk') \in 1 .. MaxChunk
    BY <1>3, <1>4, <1>5, AllocatorAssumption
  <2> QED
    BY <1>2, <1>3, <1>5, <1>6, <2>3, <2>4, <2>5 DEF TypeOK
<1> QED
  BY <1>7, <1>8 DEF IInv

LEMMA AllocHereStep ==
    ASSUME IInv, NEW size \in Size, NEW f \in Flag, AllocHere(size, f)
    PROVE  IInv'
<1> DEFINE real == RealSize(size)
<1>1. size \in Nat /\ real \in Nat /\ size <= real /\ real % Align = 0
  BY RealSizeRoundsUp
<1>2. TypeOK /\ Packed /\ NoOverlap
  BY DEF IInv
<1>3. /\ real + offset < EachChunk
      /\ HandOut(Cur, Len(chunk), offset, size, f)
      /\ Cur \in {"chunk_", "NULL"}
      /\ offset' = offset + real
      /\ Charge(f, real)
      /\ UNCHANGED <<chunk, big, released, marks>>
  BY DEF AllocHere, Fits, Cur
<1> HIDE DEF real
<1>4. /\ Len(big) \in Nat /\ Len(chunk) \in Nat \ {0} /\ offset \in Nat
      /\ EachChunk \in Nat \ {0}
  BY <1>2, AllocatorAssumption DEF TypeOK
<1>5. /\ offset' \in 0 .. EachChunk - 1
      /\ offset + size < EachChunk /\ offset + size <= offset' /\ offset <= offset'
  BY <1>1, <1>3, <1>4
<1>6. offset % Align = 0 /\ offset' % Align = 0
  <2>1. offset % Align = 0
    BY <1>2 DEF Packed
  <2> QED
    BY <1>1, <1>3, <1>4, <2>1, AlignedSum
<1>7. Packed' /\ NoOverlap'
  BY <1>1, <1>2, <1>3, <1>4, <1>5, <1>6, OnTop
<1>8. TypeOK'
  <2> DEFINE b == [array |-> Cur, entry |-> Len(chunk), at |-> offset, size |-> size,
                   flag |-> f]
  <2>1. b \in Block
    BY <1>1, <1>3, <1>4 DEF Block
  <2>2. blocks' = Append(blocks, b) \/ blocks' = blocks
    BY <1>3 DEF HandOut
  <2> HIDE DEF b
  <2>3. blocks' \in Seq(Block)
    BY <1>2, <2>1, <2>2 DEF TypeOK
  <2>4. zone' \in [Flag -> Nat]
    BY <1>1, <1>2, <1>3 DEF TypeOK, Charge
  <2> QED
    BY <1>2, <1>3, <1>5, <2>3, <2>4 DEF TypeOK
<1> QED
  BY <1>7, <1>8 DEF IInv

LEMMA mark_mm_flagStep ==
    ASSUME IInv, NEW size \in Size, NEW f \in Flag, mark_mm_flag(size, f)
    PROVE  IInv'
<1>1. TypeOK /\ Packed /\ NoOverlap /\ size \in Nat
  BY RealSizeRoundsUp DEF IInv
<1>2. UNCHANGED <<chunk, big, offset, released, blocks>>
  BY DEF mark_mm_flag
<1>3. Packed' /\ NoOverlap'
  BY <1>1, <1>2 DEF Packed, NoOverlap
<1>4. zone' \in [Flag -> Nat] /\ marks' \in Seq(Size \X Flag)
  BY <1>1 DEF mark_mm_flag, TypeOK
<1> QED
  BY <1>1, <1>2, <1>3, <1>4 DEF IInv, TypeOK

LEMMA delete_mmStep ==
    ASSUME IInv, delete_mm
    PROVE  IInv'
<1>1. TypeOK /\ Packed /\ NoOverlap
  BY DEF IInv
<1>2. UNCHANGED <<offset, zone, blocks, marks>> /\ released' = TRUE
  BY DEF delete_mm
<1>3. chunk' \in Seq(Entry) /\ Len(chunk') = Len(chunk)
  <2>1. chunk \in Seq(Entry) /\ chunk' = [i \in 1 .. Len(chunk) |-> "NULL"]
    BY <1>1 DEF delete_mm, TypeOK
  <2> QED
    BY <2>1 DEF Entry
<1>4. big' \in Seq(Entry) /\ Len(big') = Len(big)
  <2>1. big \in Seq(Entry) /\ big' = [i \in 1 .. Len(big) |-> "NULL"]
    BY <1>1 DEF delete_mm, TypeOK
  <2> QED
    BY <2>1 DEF Entry
<1>5. Packed' /\ NoOverlap'
  BY <1>1, <1>2, <1>3, <1>4 DEF Packed, NoOverlap
<1> QED
  BY <1>1, <1>2, <1>3, <1>4, <1>5 DEF IInv, TypeOK

THEOREM StepIInv == IInv /\ [Next]_vars => IInv'
<1> SUFFICES ASSUME IInv, [Next]_vars PROVE IInv'
  OBVIOUS
<1>1. ASSUME NEW size \in Size, NEW f \in Flag, alloc_mm(size, f) PROVE IInv'
  BY <1>1, AllocBigChunkStep, AllocChunkStep, AllocHereStep DEF alloc_mm
<1>2. ASSUME NEW size \in Size, NEW f \in Flag, mark_mm_flag(size, f) PROVE IInv'
  BY <1>2, mark_mm_flagStep
<1>3. CASE delete_mm
  BY <1>3, delete_mmStep
<1>4. CASE UNCHANGED vars
  BY <1>4 DEF IInv, TypeOK, Packed, NoOverlap, vars
<1> QED
  BY <1>1, <1>2, <1>3, <1>4 DEF Next

LEMMA Invariance == Spec => []IInv
  BY InitIInv, StepIInv, PTL DEF Spec

-----------------------------------------------------------------------------
(* What is charged                                                         *)

\* There is one multiple of the alignment in reach of a size.
LEMMA RoundedUpIs ==
    ASSUME NEW size \in Nat, NEW n \in size .. size + Align - 1, n % Align = 0
    PROVE  RoundedUp(size) = n
<1>1. Align \in Nat \ {0}
  BY AllocatorAssumption
<1>2. ASSUME NEW m \in size .. size + Align - 1, m % Align = 0
      PROVE  m = n
  <2>1. m \in Int /\ n \in Int /\ m - n < Align /\ n - m < Align
    BY <1>1
  <2>2. /\ m \div Align \in Int /\ m = Align * (m \div Align)
        /\ n \div Align \in Int /\ n = Align * (n \div Align)
    BY <1>1, <1>2, <2>1
  <2> DEFINE p == m \div Align
             q == n \div Align
  <2> HIDE DEF p, q
  <2>3. p \in Int /\ q \in Int /\ m = Align * p /\ n = Align * q
    BY <2>2 DEF p, q
  <2>4. ~(p > q)
    <3> SUFFICES ASSUME p > q PROVE FALSE
      OBVIOUS
    <3>1. p - q >= 1
      BY <2>3
    <3>2. Align * (p - q) >= Align * 1
      BY <1>1, <2>3, <3>1
    <3>3. Align * (p - q) = m - n
      BY <1>1, <2>3
    <3> QED
      BY <1>1, <2>1, <3>2, <3>3
  <2>5. ~(q > p)
    <3> SUFFICES ASSUME q > p PROVE FALSE
      OBVIOUS
    <3>1. q - p >= 1
      BY <2>3
    <3>2. Align * (q - p) >= Align * 1
      BY <1>1, <2>3, <3>1
    <3>3. Align * (q - p) = n - m
      BY <1>1, <2>3
    <3> QED
      BY <1>1, <2>1, <3>2, <3>3
  <2>6. p = q
    BY <2>3, <2>4, <2>5
  <2> QED
    BY <2>3, <2>6
<1> QED
  BY <1>2 DEF RoundedUp

\* And there is always one.
LEMMA RoundedUpType ==
    ASSUME NEW size \in Nat
    PROVE  RoundedUp(size) \in Nat
<1> DEFINE s == size + Align - 1
           n == s - (s % Align)
<1>1. Align \in Nat \ {0} /\ s \in Nat
  BY AllocatorAssumption
<1>2. s % Align \in 0 .. Align - 1 /\ s = Align * (s \div Align) + (s % Align)
  BY <1>1
<1>3. n \in size .. size + Align - 1
  BY <1>1, <1>2
<1>4. n % Align = 0
  <2>1. s \div Align \in Int /\ n = Align * (s \div Align)
    BY <1>1, <1>2
  <2> QED
    BY <1>1, <2>1, MultipleRemainder
<1> HIDE DEF n
<1>5. RoundedUp(size) = n
  BY <1>3, <1>4, RoundedUpIs
<1> QED
  BY <1>3, <1>5

\* What a block is charged is its size, rounded up.
LEMMA ChargedSize ==
    ASSUME NEW size \in Size
    PROVE  RoundedUp(size) = RealSize(size)
<1> DEFINE s == size + Align - 1
<1>1. size \in Nat /\ Align \in Nat \ {0} /\ IntMod \in Nat \ {0} /\ s \in 0 .. IntMod - 1
  BY AllocatorAssumption
<1>2. s % IntMod = s
  BY <1>1
<1>3. RealSize(size) = s - (s % Align)
  BY <1>2 DEF RealSize
<1>4. s % Align \in 0 .. Align - 1
  BY <1>1
<1>5. RealSize(size) \in size .. size + Align - 1
  BY <1>1, <1>3, <1>4
<1>6. RealSize(size) % Align = 0
  BY RealSizeRoundsUp
<1> QED
  BY <1>1, <1>5, <1>6, RoundedUpIs

\* The amounts that are summed are numbers.
LEMMA Amounts ==
    ASSUME TypeOK, NEW f \in Flag
    PROVE  /\ Len(blocks) \in Nat /\ Given(f) \in [1 .. Len(blocks) -> Int]
           /\ Len(marks) \in Nat /\ Marked(f) \in [1 .. Len(marks) -> Int]
<1>1. blocks \in Seq(Block) /\ marks \in Seq(Size \X Flag)
  BY DEF TypeOK
<1>2. ASSUME NEW i \in DOMAIN blocks
      PROVE  (IF blocks[i].flag = f THEN RoundedUp(blocks[i].size) ELSE 0) \in Int
  <2>1. blocks[i] \in Block
    BY <1>1
  <2>2. blocks[i].size \in Nat
    BY <2>1 DEF Block
  <2>3. RoundedUp(blocks[i].size) \in Nat
    BY <2>2, RoundedUpType
  <2> QED
    BY <2>3
<1>3. ASSUME NEW i \in DOMAIN marks
      PROVE  (IF marks[i][2] = f THEN marks[i][1] ELSE 0) \in Int
  <2>1. marks[i] \in Size \X Flag
    BY <1>1
  <2>2. marks[i][1] \in Size
    BY <2>1
  <2>3. marks[i][1] \in Nat
    BY <2>2, RealSizeRoundsUp
  <2> QED
    BY <2>3
<1>4. DOMAIN blocks = 1 .. Len(blocks) /\ DOMAIN marks = 1 .. Len(marks)
  BY <1>1
<1>5. Len(blocks) \in Nat /\ Len(marks) \in Nat
  BY <1>1
<1>6. Given(f) \in [1 .. Len(blocks) -> Int]
  BY <1>2, <1>4 DEF Given
<1>7. Marked(f) \in [1 .. Len(marks) -> Int]
  BY <1>3, <1>4 DEF Marked
<1> QED
  BY <1>5, <1>6, <1>7

\* A step that hands out a block and charges for it keeps the account.
LEMMA HandOutAccounted ==
    ASSUME TypeOK, TypeOK', ZoneAccounting,
           NEW array, NEW entry, NEW at, NEW size \in Size, NEW f \in Flag,
           HandOut(array, entry, at, size, f), Charge(f, RealSize(size)),
           marks' = marks
    PROVE  ZoneAccounting'
<1> SUFFICES ASSUME NEW g \in Flag
             PROVE  zone'[g] = Total(Len(blocks'), Given(g)') + Total(Len(marks'), Marked(g)')
  BY DEF ZoneAccounting
<1> DEFINE n == Len(blocks)
           new == [array |-> array, entry |-> entry, at |-> at, size |-> size, flag |-> f]
<1>1. /\ n \in Nat /\ Given(g) \in [1 .. n -> Int]
      /\ Len(marks) \in Nat /\ Marked(g) \in [1 .. Len(marks) -> Int]
  BY Amounts
<1>2. zone \in [Flag -> Nat] /\ RealSize(size) \in Nat
  BY RealSizeRoundsUp DEF TypeOK
<1>3. zone[g] = Total(n, Given(g)) + Total(Len(marks), Marked(g))
  BY DEF ZoneAccounting
<1>4. zone'[g] = IF g = f THEN zone[g] + RealSize(size) ELSE zone[g]
  BY <1>2 DEF Charge
<1>5. Marked(g)' = Marked(g)
  BY DEF Marked
<1>6. /\ Len(blocks') = n + 1 /\ blocks'[n + 1] = new
      /\ \A i \in 1 .. n : blocks'[i] = blocks[i]
      /\ DOMAIN blocks' = 1 .. n + 1
      /\ DOMAIN blocks = 1 .. n
  <2>1. blocks \in Seq(Block) /\ blocks' = Append(blocks, new)
    BY DEF TypeOK, HandOut
  <2> HIDE DEF new
  <2>2. blocks' \in Seq(Block \union {new})
    BY <2>1
  <2> QED
    BY <2>1, <2>2
<1>7. /\ Given(g)' \in [1 .. n + 1 -> Int]
      /\ \A i \in 1 .. n : Given(g)'[i] = Given(g)[i]
      /\ Given(g)'[n + 1] = IF f = g THEN RoundedUp(size) ELSE 0
  <2>1. Given(g)' = [i \in 1 .. n + 1 |->
                       IF blocks'[i].flag = g THEN RoundedUp(blocks'[i].size) ELSE 0]
    BY <1>6 DEF Given
  <2>2. Given(g) = [i \in 1 .. n |->
                      IF blocks[i].flag = g THEN RoundedUp(blocks[i].size) ELSE 0]
    BY <1>6 DEF Given
  <2>3. new.flag = f /\ new.size = size
    OBVIOUS
  <2> HIDE DEF new, n
  <2>4. ASSUME NEW i \in 1 .. n PROVE Given(g)'[i] = Given(g)[i]
    <3>1. i \in 1 .. n + 1
      BY <1>1
    <3> QED
      BY <1>6, <2>1, <2>2, <3>1
  <2>5. Given(g)'[n + 1] = IF f = g THEN RoundedUp(size) ELSE 0
    <3>1. n + 1 \in 1 .. n + 1
      BY <1>1
    <3> QED
      BY <1>6, <2>1, <2>3, <3>1
  <2>6. RoundedUp(size) \in Nat
    BY <1>2, ChargedSize
  <2>7. ASSUME NEW i \in 1 .. n + 1 PROVE Given(g)'[i] \in Int
    <3>1. i \in 1 .. n \/ i = n + 1
      BY <1>1
    <3>2. CASE i \in 1 .. n
      BY <1>1, <2>4, <3>2
    <3>3. CASE i = n + 1
      BY <2>5, <2>6, <3>3
    <3> QED
      BY <3>1, <3>2, <3>3
  <2>8. Given(g)' = [i \in 1 .. n + 1 |-> Given(g)'[i]]
    BY <2>1
  <2>9. Given(g)' \in [1 .. n + 1 -> Int]
    BY <2>7, <2>8
  <2> QED
    BY <2>4, <2>5, <2>9
<1> DEFINE after == Given(g)'
<1>8. after \in [1 .. n + 1 -> Int] /\ \A i \in 1 .. n : after[i] = Given(g)[i]
  BY <1>7
<1> HIDE DEF after, n
<1>9. Total(n + 1, after) = Total(n, Given(g)) + after[n + 1] /\ Total(n, Given(g)) \in Int
  BY <1>1, <1>8, TotalNext
<1>10. Total(Len(marks), Marked(g)) \in Int
  BY <1>1, TotalType
<1>11. RoundedUp(size) = RealSize(size)
  BY ChargedSize
<1>12. Total(n + 1, after)
         = IF g = f THEN Total(n, Given(g)) + RealSize(size) ELSE Total(n, Given(g))
  BY <1>2, <1>7, <1>9, <1>11 DEF after
<1>13. zone'[g] = Total(n + 1, after) + Total(Len(marks), Marked(g))
  BY <1>2, <1>3, <1>4, <1>9, <1>10, <1>12
<1> QED
  BY <1>5, <1>6, <1>13 DEF after

\* So does counting memory of another kind.
LEMMA MarkAccounted ==
    ASSUME TypeOK, TypeOK', ZoneAccounting,
           NEW size \in Size, NEW f \in Flag, mark_mm_flag(size, f)
    PROVE  ZoneAccounting'
<1> SUFFICES ASSUME NEW g \in Flag
             PROVE  zone'[g] = Total(Len(blocks'), Given(g)') + Total(Len(marks'), Marked(g)')
  BY DEF ZoneAccounting
<1> DEFINE n == Len(marks)
           after == Marked(g)'
<1>1. /\ Len(blocks) \in Nat /\ Given(g) \in [1 .. Len(blocks) -> Int]
      /\ n \in Nat /\ Marked(g) \in [1 .. n -> Int]
  BY Amounts
<1>2. zone \in [Flag -> Nat] /\ size \in Nat
  BY RealSizeRoundsUp DEF TypeOK
<1>3. zone[g] = Total(Len(blocks), Given(g)) + Total(n, Marked(g))
  BY DEF ZoneAccounting
<1>4. zone'[g] = IF g = f THEN zone[g] + size ELSE zone[g]
  BY <1>2 DEF mark_mm_flag
<1>5. Given(g)' = Given(g) /\ blocks' = blocks
  BY DEF Given, mark_mm_flag
<1>6. /\ Len(marks') = n + 1 /\ marks'[n + 1] = <<size, f>>
      /\ \A i \in 1 .. n : marks'[i] = marks[i]
      /\ DOMAIN marks' = 1 .. n + 1
      /\ DOMAIN marks = 1 .. n
  <2>1. marks \in Seq(Size \X Flag) /\ marks' = Append(marks, <<size, f>>)
    BY DEF TypeOK, mark_mm_flag
  <2>2. marks' \in Seq(Size \X Flag)
    BY DEF TypeOK
  <2> QED
    BY <2>1, <2>2
<1>7. after = [i \in 1 .. n + 1 |-> IF marks'[i][2] = g THEN marks'[i][1] ELSE 0]
  BY <1>6 DEF Marked
<1>8. Marked(g) = [i \in 1 .. n |-> IF marks[i][2] = g THEN marks[i][1] ELSE 0]
  BY <1>6 DEF Marked
<1> HIDE DEF after, n
<1>9. ASSUME NEW i \in 1 .. n PROVE after[i] = Marked(g)[i]
  <2>1. i \in 1 .. n + 1
    BY <1>1
  <2> QED
    BY <1>6, <1>7, <1>8, <2>1
<1>10. after[n + 1] = IF f = g THEN size ELSE 0
  <2>1. n + 1 \in 1 .. n + 1
    BY <1>1
  <2> QED
    BY <1>6, <1>7, <2>1
<1>11. ASSUME NEW i \in 1 .. n + 1 PROVE after[i] \in Int
  <2>1. i \in 1 .. n \/ i = n + 1
    BY <1>1
  <2>2. CASE i \in 1 .. n
    BY <1>1, <1>9, <2>2
  <2>3. CASE i = n + 1
    BY <1>2, <1>10, <2>3
  <2> QED
    BY <2>1, <2>2, <2>3
<1>12. after = [i \in 1 .. n + 1 |-> after[i]]
  BY <1>7
<1>13. after \in [1 .. n + 1 -> Int]
  BY <1>11, <1>12
<1>14. Total(n + 1, after) = Total(n, Marked(g)) + after[n + 1] /\ Total(n, Marked(g)) \in Int
  BY <1>1, <1>9, <1>13, TotalNext
<1>15. Total(Len(blocks), Given(g)) \in Int
  BY <1>1, TotalType
<1>16. Total(n + 1, after)
         = IF g = f THEN Total(n, Marked(g)) + size ELSE Total(n, Marked(g))
  BY <1>2, <1>10, <1>14
<1>17. zone'[g] = Total(Len(blocks), Given(g)) + Total(n + 1, after)
  BY <1>2, <1>3, <1>4, <1>14, <1>15, <1>16
<1> QED
  BY <1>5, <1>6, <1>17 DEF after

\* A failed allocation charges nothing, and nothing is refunded.
LEMMA NothingCharged ==
    ASSUME ZoneAccounting, zone' = zone, blocks' = blocks, marks' = marks
    PROVE  ZoneAccounting'
BY DEF ZoneAccounting, Given, Marked

LEMMA InitAccounting == Init => ZoneAccounting
<1> SUFFICES ASSUME Init, NEW f \in Flag
             PROVE  zone[f] = Total(Len(blocks), Given(f)) + Total(Len(marks), Marked(f))
  BY DEF ZoneAccounting
<1>1. TypeOK
  BY InitIInv DEF IInv
<1>2. Len(blocks) = 0 /\ Len(marks) = 0 /\ zone[f] = 0
  BY DEF Init
<1>3. Given(f) \in [1 .. 0 -> Int] /\ Marked(f) \in [1 .. 0 -> Int]
  BY <1>1, <1>2, Amounts
<1>4. Total(0, Given(f)) = 0 /\ Total(0, Marked(f)) = 0
  BY <1>3, TotalNone
<1> QED
  BY <1>2, <1>4

LEMMA StepAccounting ==
    IInv /\ IInv' /\ ZoneAccounting /\ [Next]_vars => ZoneAccounting'
<1> SUFFICES ASSUME IInv, IInv', ZoneAccounting, [Next]_vars PROVE ZoneAccounting'
  OBVIOUS
<1>1. TypeOK /\ TypeOK'
  BY DEF IInv
<1>2. ASSUME NEW size \in Size, NEW f \in Flag, AllocBigChunk(size, f) PROVE ZoneAccounting'
  <2>1. CASE HandOut("big_chunk_", Len(big) + 1, 0, size, f) /\ Charge(f, RealSize(size))
    BY <1>1, <1>2, <2>1, HandOutAccounted DEF AllocBigChunk
  <2>2. CASE UNCHANGED <<blocks, zone>>
    BY <1>2, <2>2, NothingCharged DEF AllocBigChunk
  <2> QED
    BY <1>2, <2>1, <2>2 DEF AllocBigChunk
<1>3. ASSUME NEW size \in Size, NEW f \in Flag, AllocChunk(size, f) PROVE ZoneAccounting'
  <2>1. CASE HandOut("chunk_", Len(chunk) + 1, 0, size, f) /\ Charge(f, RealSize(size))
    BY <1>1, <1>3, <2>1, HandOutAccounted DEF AllocChunk
  <2>2. CASE UNCHANGED <<blocks, zone>>
    BY <1>3, <2>2, NothingCharged DEF AllocChunk
  <2> QED
    BY <1>3, <2>1, <2>2 DEF AllocChunk
<1>4. ASSUME NEW size \in Size, NEW f \in Flag, AllocHere(size, f) PROVE ZoneAccounting'
  BY <1>1, <1>4, HandOutAccounted DEF AllocHere
<1>5. ASSUME NEW size \in Size, NEW f \in Flag, mark_mm_flag(size, f) PROVE ZoneAccounting'
  BY <1>1, <1>5, MarkAccounted
<1>6. CASE delete_mm
  BY <1>6, NothingCharged DEF delete_mm
<1>7. CASE UNCHANGED vars
  BY <1>7, NothingCharged DEF vars
<1> QED
  BY <1>2, <1>3, <1>4, <1>5, <1>6, <1>7 DEF Next, alloc_mm

-----------------------------------------------------------------------------
(* What callers rely on                                                    *)

\* The allocator's indexes stay within its arrays, its offset within a chunk.
THEOREM TypeCorrect == Spec => []TypeOK
<1>1. IInv => TypeOK
  BY DEF IInv
<1> QED
  BY <1>1, Invariance, PTL

\* A block is aligned and never reaches beyond the chunk it is cut from.
THEOREM InBoundsCorrect == Spec => []InBounds
<1>1. ASSUME IInv PROVE InBounds
  <2>1. \A i \in DOMAIN blocks : blocks[i] \in Block
    BY <1>1 DEF IInv, TypeOK
  <2> QED
    BY <1>1, <2>1 DEF IInv, Packed, InBounds
<1> QED
  BY <1>1, Invariance, PTL

\* No two blocks share a byte of memory that was had, whatever was asked for in which
\* order.  (Blocks of chunks that could not be had are offsets from NULL and may
\* coincide.)
THEOREM NoOverlapCorrect == Spec => []NoOverlap
<1>1. IInv => NoOverlap
  BY DEF IInv
<1> QED
  BY <1>1, Invariance, PTL

\* zone_memory_ is what was marked and the rounded sizes of what was handed out.
THEOREM ZoneCorrect == Spec => []ZoneAccounting
<1>1. Init => ZoneAccounting
  BY InitAccounting
<1>2. IInv /\ IInv' /\ ZoneAccounting /\ [Next]_vars => ZoneAccounting'
  BY StepAccounting
<1> QED
  BY <1>1, <1>2, Invariance, PTL DEF Spec
=============================================================================
